---- MODULE Spec2Model ----
(***************************************************************************)
(* Route Runner API: the request pipeline of index.ts (generateRoute,      *)
(* handleGenerateRoute, handleGetRoute), the location agent                *)
(* (resolveLocations, geocodeMention) and the model selector.              *)
(*                                                                         *)
(* Every await of the code is a point where the model waits for an         *)
(* external collaborator; the outcome of the collaborator is chosen by the *)
(* action that settles the call, and everything the code does up to the    *)
(* next await belongs to that action.                                      *)
(*                                                                         *)
(* Units.  Coordinates are fixed point numbers in units of 10^-4 degree    *)
(* (the precision of the merge key, toFixed(4)).  Miles are held in        *)
(* hundredths (the precision calculateStats and estimateRouteDistance      *)
(* round to).  All modelled points lie on the user's meridian, where the   *)
(* haversine formula reduces to R * |dLat|.                                *)
(***************************************************************************)
EXTENDS Integers, Sequences, FiniteSets, TLC

\* ------------------------------------------------------------------ bounds

\* Generate requests served in one behaviour.
MaxRequests == 1

\* Words of a query given to determineTier.
MaxWords == 22

\* Tokens of a text the backend returns as a route name.
MaxNameTokens == 5

\* Captures the detection rules make in one query.
MaxDetections == 3

\* The most mentions looked up when the merge of resolveLocations is called
\* on its own.
MaxLookups == 3

\* The most features in a geocoder response when geocodeMention is called on
\* its own (the request asks for at most 5).
MaxFeatures == 3

\* The most waypoints in a provider's intent, and the largest target distance
\* in hundredths of a mile, when the distance validation is called on its
\* own.
MaxWaypoints == 2
MaxTarget == 600

\* The longest ring of a polygon when the perimeter sampling is called on
\* its own.
MaxRingLength == 45

\* ------------------------------------------------------- program constants

MILES_RADIUS == 25
MAX_PERIMETER_POINTS == 20
KV_TTL_SECONDS == 86400

\* An optional value (a field that may be undefined): <<>> or <<v>>.
None == <<>>
Some(v) == <<v>>
IsSome(o) == o # <<>>
Get(o) == o[1]

\* An unset string (undefined and "" are both falsy).
Unset == ""
Truthy(str) == str # Unset

PURPOSE_PRIORITY ==
  [perimeter |-> 3, destination |-> 2, landmark |-> 1, unknown |-> 0]

purposePriority(purpose) == PURPOSE_PRIORITY[purpose]

\* ------------------------------------------------------------ arithmetic

Abs(x) == IF x < 0 THEN -x ELSE x

Max(a, b) == IF a >= b THEN a ELSE b

\* Math.round(n / d) for n >= 0, d > 0
RoundDiv(n, d) == (2 * n + d) \div (2 * d)

\* Math.ceil(n / d) for n >= 0, d > 0
CeilDiv(n, d) == (n + d - 1) \div d

RECURSIVE SeqSum(_)
SeqSum(s) == IF s = <<>> THEN 0 ELSE Head(s) + SeqSum(Tail(s))

\* ------------------------------------------------------------------ points

Pt(lat, lng) == [lat |-> lat, lng |-> lng]

\* The caller's position of test-api.sh (47.6205, -122.3493).
UserPt == Pt(476205, -1223493)

\* Points north of the user on the user's meridian, k * 10^-4 degree away.
North(k) == Pt(UserPt.lat + k, UserPt.lng)

\* ------------------------------------------------------------------- text

\* White space and quote characters of a text; every other piece of a
\* text is a run of ordinary characters.
WhiteSpace == {" ", "\n", "\t"}
Quotes == {"'", "\""}

RECURSIVE dropLeadingSpace(_)
dropLeadingSpace(text) ==
  IF text # <<>> /\ Head(text) \in WhiteSpace
    THEN dropLeadingSpace(Tail(text)) ELSE text

RECURSIVE dropTrailingSpace(_)
dropTrailingSpace(text) ==
  IF text # <<>> /\ text[Len(text)] \in WhiteSpace
    THEN dropTrailingSpace(SubSeq(text, 1, Len(text) - 1)) ELSE text

\* String.prototype.trim
trim(text) == dropTrailingSpace(dropLeadingSpace(text))

\* replace(/['"]/g, '')
RECURSIVE stripQuotes(_)
stripQuotes(text) ==
  IF text = <<>> THEN <<>>
  ELSE IF Head(text) \in Quotes THEN stripQuotes(Tail(text))
  ELSE <<Head(text)>> \o stripQuotes(Tail(text))

\* The number of maximal runs of white space in a text.
RECURSIVE spaceRuns(_, _)
spaceRuns(text, inRun) ==
  IF text = <<>> THEN 0
  ELSE IF Head(text) \in WhiteSpace
    THEN (IF inRun THEN 0 ELSE 1) + spaceRuns(Tail(text), TRUE)
  ELSE spaceRuns(Tail(text), FALSE)

\* name.split(/\s+/).length
splitLength(text) == spaceRuns(text, FALSE) + 1

\* ---------------------------------------------------------------- queries
\* A query is its text together with what the code reads from it: the text
\* as tokens (a token is one white space character or a run of other
\* characters) and the captures of the five detection rules of
\* extractLocationMentions in the order the rules run (around, destination,
\* start, via, capitalized run).

Det(raw, purpose) == [raw |-> raw, purpose |-> purpose]

\* The words separated by one blank each.
RECURSIVE Spaced(_)
Spaced(words) ==
  IF Len(words) <= 1 THEN words
  ELSE <<Head(words), " ">> \o Spaced(Tail(words))

Query(text, tokens, detections) ==
  [text |-> text, tokens |-> tokens, detections |-> detections]

QLoop == Query("5 mile loop", Spaced(<<"5", "mile", "loop">>), <<>>)

QAround ==
  Query("run around Green Lake", Spaced(<<"run", "around", "Green", "Lake">>),
        <<Det("Green Lake", "perimeter"), Det("Green Lake", "landmark")>>)

QScenic ==
  Query("5 mile scenic loop via Pike Place, to Kerry Park",
        Spaced(<<"5", "mile", "scenic", "loop", "via", "Pike", "Place,", "to",
                 "Kerry", "Park">>),
        <<Det("Kerry Park", "destination"), Det("Pike Place", "landmark"),
          Det("Pike Place", "landmark"), Det("Kerry Park", "landmark")>>)

Queries == {QLoop, QAround, QScenic}

\* ------------------------------------------------------------ ModelSelector

\* The words of the modelled queries whose lower-cased form contains one of
\* 'scenic', 'avoid', 'flat', 'hilly', 'challenging', 'view', 'waterfront'
\* (lowerQuery.includes, lines 17-23): a keyword may be in capitals or inside
\* a longer word.
includesKeyword(token) ==
  token \in {"scenic", "SCENIC", "avoiding", "flat", "hilly", "challenging",
             "review", "waterfront"}

\* /[A-Z]/.test, for the words of the modelled queries.
hasCapital(token) ==
  token \in {"SCENIC", "Green", "Lake", "Pike", "Place,", "Kerry", "Park"}

\* determineTier: wordCount is query.split(/\s+/).length.
determineTier(query) ==
  LET wordCount == splitLength(query.tokens)
      keyword == \E i \in 1..Len(query.tokens) : includesKeyword(query.tokens[i])
      capital == \E i \in 1..Len(query.tokens) : hasCapital(query.tokens[i])
  IN IF keyword \/ wordCount > 20 THEN "intelligent"
     ELSE IF capital \/ wordCount > 10 THEN "balanced"
     ELSE "fast"

\* new OpenAIProvider(apiKey, model) and the like: the model is "default"
\* when the constructor's default is taken.
Provider(kind, apiKey, model) ==
  [kind |-> kind, apiKey |-> apiKey, model |-> model]

ConfigError ==
  [kind |-> "error", apiKey |-> Unset, model |-> "No AI API keys configured!"]

\* A getProvider that gives up when the tier's own list is exhausted.
fallbackProvider_None(env) == ConfigError

\* The ultimate fallback of getProvider (lines 89-100): whatever key exists.
fallbackProvider(env) ==
  IF Truthy(env.ANTHROPIC_API_KEY)
    THEN Provider("anthropic", env.ANTHROPIC_API_KEY, "default")
  ELSE IF Truthy(env.OPENAI_API_KEY)
    THEN Provider("openai", env.OPENAI_API_KEY, "default")
  ELSE IF Truthy(env.GEMINI_API_KEY)
    THEN Provider("gemini", env.GEMINI_API_KEY, "default")
  ELSE ConfigError

getProvider(env, query) ==
  LET tier == determineTier(query) IN
  CASE tier = "intelligent" ->
         IF Truthy(env.OPENAI_API_KEY)
           THEN Provider("openai", env.OPENAI_API_KEY, "gpt-4o")
         ELSE IF Truthy(env.ANTHROPIC_API_KEY)
           THEN Provider("anthropic", env.ANTHROPIC_API_KEY,
                         "claude-3-sonnet-20240229")
         ELSE IF Truthy(env.GEMINI_API_KEY)
           THEN Provider("gemini", env.GEMINI_API_KEY, "gemini-1.5-pro")
         ELSE fallbackProvider(env)
    [] tier = "balanced" ->
         IF Truthy(env.OPENAI_API_KEY)
           THEN Provider("openai", env.OPENAI_API_KEY, "gpt-4o-mini")
         ELSE IF Truthy(env.ANTHROPIC_API_KEY)
           THEN Provider("anthropic", env.ANTHROPIC_API_KEY,
                         "claude-haiku-4-5-20251001")
         ELSE fallbackProvider(env)
    [] OTHER ->
         IF Truthy(env.GEMINI_API_KEY)
           THEN Provider("gemini", env.GEMINI_API_KEY, "gemini-1.5-flash")
         ELSE IF Truthy(env.ANTHROPIC_API_KEY)
           THEN Provider("anthropic", env.ANTHROPIC_API_KEY,
                         "claude-haiku-4-5-20251001")
         ELSE fallbackProvider(env)

\* --------------------------------------------------------- MentionExtractor

Mention(phrase, purpose) == [phrase |-> phrase, purpose |-> purpose]

\* toLowerCase for the phrases and names of the model.
toLowerCase(name) ==
  CASE name = "Green Lake" -> "green lake"
    [] name = "Kerry Park" -> "kerry park"
    [] name = "KERRY PARK" -> "kerry park"
    [] name = "Pike Place" -> "pike place"
    [] OTHER -> name

\* cleanCapturedPhrase for the captures of the model: a leading article and
\* trailing punctuation go, and a capture of punctuation only is empty.
cleanCapturedPhrase(phrase) ==
  CASE phrase = "the Green Lake." -> "Green Lake"
    [] phrase = " green lake" -> "green lake"
    [] phrase = ".." -> ""
    [] OTHER -> phrase

\* Index of the mention with this key in the insertion-ordered map, or 0.
\* The key of an entry is its cleaned phrase lower-cased (line 105).
RECURSIVE IndexOfPhrase(_, _, _)
IndexOfPhrase(map, key, i) ==
  IF i > Len(map) THEN 0
  ELSE IF toLowerCase(map[i].phrase) = key THEN i
  ELSE IndexOfPhrase(map, key, i + 1)

\* A registerMention that lets the last detection of a phrase win.
registerMention_LastWins(mentionMap, rawPhrase, purpose) ==
  LET cleaned == cleanCapturedPhrase(rawPhrase)
      i == IndexOfPhrase(mentionMap, toLowerCase(cleaned), 1)
  IN IF cleaned = "" THEN mentionMap
     ELSE IF i = 0 THEN Append(mentionMap, Mention(cleaned, purpose))
     ELSE [mentionMap EXCEPT ![i] = Mention(cleaned, purpose)]

registerMention(mentionMap, rawPhrase, purpose) ==
  LET cleaned == cleanCapturedPhrase(rawPhrase)
      i == IndexOfPhrase(mentionMap, toLowerCase(cleaned), 1)
  IN IF cleaned = "" THEN mentionMap
     ELSE IF i = 0 THEN Append(mentionMap, Mention(cleaned, purpose))
     ELSE IF purposePriority(purpose) > purposePriority(mentionMap[i].purpose)
       THEN [mentionMap EXCEPT ![i] = Mention(cleaned, purpose)]
     ELSE mentionMap

RECURSIVE registerAll(_, _)
registerAll(mentionMap, dets) ==
  IF dets = <<>> THEN mentionMap
  ELSE registerAll(registerMention(mentionMap, Head(dets).raw,
                                   Head(dets).purpose), Tail(dets))

extractLocationMentions(query) == registerAll(<<>>, query.detections)

\* ------------------------------------------------------------------ GeoMath

\* haversineDistanceMiles in units of 10^-7 mile.  With dLng = 0 the formula
\* is EARTH_RADIUS_MILES * |dLat| = 3958.8 * pi / 180 * 10^-4 mile per unit
\* of latitude, 69094 * 10^-7 mile.
haversineDistanceMiles(a, b) == Abs(b.lat - a.lat) * 69094

\* distance <= MILES_RADIUS
withinRadius(distance) == distance <= MILES_RADIUS * 10000000

\* Math.round(distance * 10) / 10, in tenths of a mile
roundTenths(distance) == RoundDiv(distance, 1000000)

\* --------------------------------------------------------- LocationResolver

\* A geocoder feature.  A position is <<lng, lat>>.
Feature(text, center, geometry, bbox) ==
  [text |-> text, place_type |-> <<"poi">>, center |-> center,
   geometry |-> geometry, bbox |-> bbox, relevance |-> Some(90)]

PointGeom(pos) == [type |-> "Point", coordinates |-> pos]
PolygonGeom(rings) == [type |-> "Polygon", coordinates |-> rings]
MultiPolygonGeom(polys) == [type |-> "MultiPolygon", coordinates |-> polys]

Note(text, pts) == [text |-> text, pts |-> pts]

createPerimeterFromBBox(bbox) ==
  LET west == bbox[1]  south == bbox[2]  east == bbox[3]  north == bbox[4] IN
  << Pt(north, west), Pt(north, east), Pt(south, east), Pt(south, west) >>

\* const [lng, lat] = position: an element the array does not have is
\* undefined.
Undefined == "undefined"
elementAt(array, k) == IF k <= Len(array) THEN array[k] ELSE Undefined

\* The for loop of sampleRing: i = 0, step, 2 * step, ...
RECURSIVE sampleFrom(_, _, _)
sampleFrom(coordinates, i, step) ==
  IF i > Len(coordinates) THEN <<>>
  ELSE << Pt(elementAt(coordinates[i], 2), elementAt(coordinates[i], 1)) >>
         \o sampleFrom(coordinates, i + step, step)

sampleRing(coordinates, maxPoints) ==
  IF Len(coordinates) = 0 THEN <<>>
  ELSE LET step == Max(1, Len(coordinates) \div maxPoints)
           sampled == sampleFrom(coordinates, 1, step)
       IN IF Len(sampled) = 0
            THEN << Pt(elementAt(coordinates[1], 2),
                       elementAt(coordinates[1], 1)) >>
            ELSE sampled

\* { points?, notes? }: both None when no source applies.  coordinates[0] of
\* a MultiPolygon is handed to sampleRing as it is.
extractPerimeterPoints(feature) ==
  IF feature.geometry.type = "Polygon" /\ Len(feature.geometry.coordinates) > 0
    THEN LET points == sampleRing(feature.geometry.coordinates[1],
                                  MAX_PERIMETER_POINTS)
         IN [points |-> Some(points),
             notes |-> Some(Note("Perimeter from polygon", Len(points)))]
  ELSE IF feature.geometry.type = "MultiPolygon"
          /\ Len(feature.geometry.coordinates) > 0
    THEN LET points == sampleRing(feature.geometry.coordinates[1],
                                  MAX_PERIMETER_POINTS)
         IN [points |-> Some(points),
             notes |-> Some(Note("Perimeter from multipolygon", Len(points)))]
  ELSE IF IsSome(feature.bbox)
    THEN [points |-> Some(createPerimeterFromBBox(Get(feature.bbox))),
          notes |-> Some(Note("Perimeter from bounding box corners", 0))]
  ELSE [points |-> None, notes |-> None]

resolveType(feature) ==
  IF Len(feature.place_type) > 0 THEN feature.place_type[1] ELSE "landmark"

OutsideNote == Note("outside 25mi radius", 0)

\* The ResolvedLocation geocodeMention builds for one feature (lines 247-268),
\* notes still undefined.
resolveFeature(feature, mention, userLocation) ==
  LET coordinates == Pt(feature.center[2], feature.center[1])
      distance == haversineDistanceMiles(userLocation, coordinates)
  IN [name |-> IF Truthy(feature.text) THEN feature.text ELSE mention.phrase,
      type |-> resolveType(feature),
      coordinates |-> coordinates,
      distance_miles |-> roundTenths(distance),
      perimeter_points |-> extractPerimeterPoints(feature).points,
      source |-> "mapbox",
      confidence |-> IF IsSome(feature.relevance) THEN Get(feature.relevance)
                     ELSE 0,
      purpose |-> mention.purpose,
      mention |-> mention.phrase,
      notes |-> <<>>]

\* The loop of geocodeMention (lines 243-284) from feature i on: acc is
\* [withinRadius, fallback].
RECURSIVE geocodeLoop(_, _, _, _, _)
geocodeLoop(features, i, mention, userLocation, acc) ==
  IF i > Len(features) THEN acc
  ELSE
    LET feature == features[i]
        resolved == resolveFeature(feature, mention, userLocation)
        distance == haversineDistanceMiles(userLocation, resolved.coordinates)
        perimeterNotes == extractPerimeterPoints(feature).notes
        noteParts == IF IsSome(perimeterNotes) THEN <<Get(perimeterNotes)>>
                     ELSE <<>>
        next ==
          IF withinRadius(distance)
            THEN [acc EXCEPT !.withinRadius =
                    Append(@, [resolved EXCEPT !.notes = noteParts])]
          ELSE IF ~IsSome(acc.fallback)
            THEN [acc EXCEPT !.fallback =
                    Some([resolved EXCEPT !.notes = <<OutsideNote>> \o noteParts])]
          ELSE acc
    IN geocodeLoop(features, i + 1, mention, userLocation, next)

\* A geocoder reply: the fetch rejects, answers with an error status, or
\* answers with a list of features.
ReplyThrow == [kind |-> "throw", features |-> <<>>]
ReplyStatus == [kind |-> "status", features |-> <<>>]
ReplyOk(features) == [kind |-> "ok", features |-> features]

\* What geocodeMention gives for a reply: [threw, candidates].
geocodeMention(mention, userLocation, reply) ==
  IF reply.kind = "throw" THEN [threw |-> TRUE, candidates |-> <<>>]
  ELSE IF reply.kind = "status" THEN [threw |-> FALSE, candidates |-> <<>>]
  ELSE IF Len(reply.features) = 0 THEN [threw |-> FALSE, candidates |-> <<>>]
  ELSE
    LET acc == geocodeLoop(reply.features, 1, mention, userLocation,
                           [withinRadius |-> <<>>, fallback |-> None])
    IN [threw |-> FALSE,
        candidates |-> IF Len(acc.withinRadius) > 0 THEN acc.withinRadius
                       ELSE IF IsSome(acc.fallback) THEN <<Get(acc.fallback)>>
                       ELSE <<>>]

\* A lookup without the try/catch of lines 311-317: a throw of
\* geocodeMention rejects Promise.all.
lookupMention_NoCatch(mention, userLocation, reply) ==
  LET r == geocodeMention(mention, userLocation, reply) IN
  [rejected |-> r.threw, candidates |-> r.candidates]

\* The wrapper of resolveLocations around one lookup (lines 310-318): a
\* lookup that throws resolves to no candidates.
lookupMention(mention, userLocation, reply) ==
  LET r == geocodeMention(mention, userLocation, reply) IN
  [rejected |-> FALSE,
   candidates |-> IF r.threw THEN <<>> ELSE r.candidates]

\* The merge key (line 324).  Coordinates are held at the 4 decimals
\* toFixed(4) keeps.
locationKey(candidate) ==
  << toLowerCase(candidate.name), candidate.coordinates.lat,
     candidate.coordinates.lng >>

RECURSIVE IndexOfKey(_, _, _)
IndexOfKey(locationMap, key, i) ==
  IF i > Len(locationMap) THEN 0
  ELSE IF locationKey(locationMap[i]) = key THEN i
  ELSE IndexOfKey(locationMap, key, i + 1)

\* A merge in which the candidate seen last replaces the entry.
mergeCandidate_LastWins(locationMap, candidate) ==
  LET i == IndexOfKey(locationMap, locationKey(candidate), 1) IN
  IF i = 0 THEN Append(locationMap, candidate)
  ELSE [locationMap EXCEPT ![i] = candidate]

\* A merge that never copies perimeter points to the entry it keeps.
mergeCandidate_NoBackfill(locationMap, candidate) ==
  LET i == IndexOfKey(locationMap, locationKey(candidate), 1) IN
  IF i = 0 THEN Append(locationMap, candidate)
  ELSE IF purposePriority(candidate.purpose)
            > purposePriority(locationMap[i].purpose)
    THEN [locationMap EXCEPT ![i] = candidate]
  ELSE locationMap

\* One iteration of the inner merge loop (lines 324-335).  The map keeps
\* insertion order; setting an existing key keeps its position.
mergeCandidate(locationMap, candidate) ==
  LET i == IndexOfKey(locationMap, locationKey(candidate), 1) IN
  IF i = 0 THEN Append(locationMap, candidate)
  ELSE IF purposePriority(candidate.purpose)
            > purposePriority(locationMap[i].purpose)
    THEN [locationMap EXCEPT ![i] = candidate]
  ELSE IF ~IsSome(locationMap[i].perimeter_points)
          /\ IsSome(candidate.perimeter_points)
    THEN [locationMap EXCEPT ![i] =
            [@ EXCEPT !.perimeter_points = candidate.perimeter_points,
                      !.notes = IF candidate.notes # <<>> THEN candidate.notes
                                ELSE @]]
  ELSE locationMap

RECURSIVE mergeCandidates(_, _)
mergeCandidates(locationMap, candidates) ==
  IF candidates = <<>> THEN locationMap
  ELSE mergeCandidates(mergeCandidate(locationMap, Head(candidates)),
                       Tail(candidates))

\* The outer merge loop over the results of Promise.all, in mention order.
RECURSIVE mergeResults(_, _, _)
mergeResults(locationMap, results, i) ==
  IF i > Len(results) THEN locationMap
  ELSE mergeResults(mergeCandidates(locationMap, results[i]), results, i + 1)

\* Array.prototype.sort by ascending distance_miles (stable).
RECURSIVE insertSorted(_, _)
insertSorted(sorted, loc) ==
  IF sorted = <<>> THEN <<loc>>
  ELSE IF Head(sorted).distance_miles <= loc.distance_miles
    THEN <<Head(sorted)>> \o insertSorted(Tail(sorted), loc)
  ELSE <<loc>> \o sorted

RECURSIVE sortByDistance(_)
sortByDistance(locs) ==
  IF locs = <<>> THEN <<>>
  ELSE insertSorted(sortByDistance(SubSeq(locs, 1, Len(locs) - 1)),
                    locs[Len(locs)])

\* One line of the rendering per location; <<>> is the empty string.
formatLocationsForPrompt(locations) ==
  [i \in 1..Len(locations) |->
     LET l == locations[i] IN
     [name |-> l.name, type |-> l.type, lat |-> l.coordinates.lat,
      lng |-> l.coordinates.lng, purpose |-> l.purpose,
      distance |-> l.distance_miles, confidence |-> l.confidence,
      perimeter_points |-> IF IsSome(l.perimeter_points)
                             THEN Len(Get(l.perimeter_points)) ELSE 0,
      notes |-> l.notes]]

\* ------------------------------------------------- reasoning provider

Intent(start, end, waypoints, distance_miles) ==
  [start |-> start, end |-> end, waypoints |-> waypoints,
   distance_miles |-> distance_miles]

\* What the backend answers to parseIntent: the call throws (HTTP error
\* status, rejected fetch, or text JSON.parse refuses), or it returns the
\* parsed JSON value: null, or an intent object.
ParseThrow == [kind |-> "throw", intent |-> None]
ParseNull == [kind |-> "null", intent |-> None]
ParseOk(intent) == [kind |-> "ok", intent |-> Some(intent)]

FALLBACK_TEXT == <<"Adventure", " ", "Run">>

\* What the backend answers to generateName: the fetch rejects, an error
\* status, a body without content[0].text, or a body with a text.
NameThrow == [kind |-> "throw", text |-> <<>>]
NameStatus == [kind |-> "status", text |-> <<>>]
NameMalformed == [kind |-> "malformed", text |-> <<>>]
NameOk(text) == [kind |-> "ok", text |-> text]

\* generateName of the three providers: [rejected, name].
generateName(reply) ==
  IF reply.kind = "throw" THEN [rejected |-> TRUE, name |-> <<>>]
  ELSE IF reply.kind = "status"
    THEN [rejected |-> FALSE, name |-> FALLBACK_TEXT]
  ELSE IF reply.kind = "malformed" THEN [rejected |-> TRUE, name |-> <<>>]
  ELSE LET name == stripQuotes(trim(reply.text)) IN
       IF splitLength(name) # 2
         THEN [rejected |-> FALSE, name |-> FALLBACK_TEXT]
         ELSE [rejected |-> FALSE, name |-> name]

\* ------------------------------------- DistanceValidator, WaypointAugmenter

waypointsOf(intent) ==
  IF IsSome(intent.waypoints) THEN Get(intent.waypoints) ELSE <<>>

\* estimateRouteDistance in hundredths of a mile: 6371 km * 0.621371 *
\* pi / 180 * 10^-4 = 0.690933 hundredths of a mile per unit of latitude,
\* summed over the segments and rounded to 2 decimals.
estimateRouteDistance(points) ==
  RoundDiv(SeqSum([i \in 1..(Len(points) - 1) |->
                     Abs(points[i + 1].lat - points[i].lat)]) * 690933,
           1000000)

\* Math.round for a quotient of either sign, d > 0
RoundFrac(n, d) == (2 * n + d) \div (2 * d)

\* Additional waypoints pushed north by the shortage, whatever the line
\* from start to end.
generateAdditionalWaypoints_Outward(start, end, targetMiles, currentMiles) ==
  LET shortage == targetMiles - currentMiles IN
  IF shortage <= 0 THEN <<>>
  ELSE [k \in 1..Max(2, CeilDiv(shortage, 50)) |->
          Pt(start.lat + shortage, start.lng)]

\* Additional waypoints without the floor of 2 on their number.
generateAdditionalWaypoints_NoFloor(start, end, targetMiles, currentMiles) ==
  LET shortage == targetMiles - currentMiles IN
  IF shortage <= 0 THEN <<>>
  ELSE [k \in 1..CeilDiv(shortage, 50) |-> start]

\* shortage and the miles are in hundredths: ceil(shortage / 0.5) is
\* ceil(shortage / 50), and shortage * 0.004 is shortage * 4 / 100000.
generateAdditionalWaypoints(start, end, targetMiles, currentMiles) ==
  LET shortage == targetMiles - currentMiles IN
  IF shortage <= 0 THEN <<>>
  ELSE
    LET numWaypoints == Max(2, CeilDiv(shortage, 50))
        latDiff == end.lat - start.lat
        lngDiff == end.lng - start.lng
    IN [k \in 1..numWaypoints |->
          LET sign == IF (k - 1) % 2 = 0 THEN 1 ELSE -1 IN
          Pt(start.lat + RoundFrac(latDiff * k, numWaypoints + 1)
                       + RoundFrac(lngDiff * shortage * 4 * sign, 100000),
             start.lng + RoundFrac(lngDiff * k, numWaypoints + 1)
                       - RoundFrac(latDiff * shortage * 4 * sign, 100000))]

\* A validation that puts the additional waypoints before the provider's.
validateDistance_Prepend(intent) ==
  IF IsSome(intent.distance_miles) /\ Get(intent.distance_miles) > 0
    THEN
      LET target == Get(intent.distance_miles)
          coords == <<intent.start>> \o waypointsOf(intent) \o <<intent.end>>
          estimatedMiles == estimateRouteDistance(coords)
          additionalWaypoints ==
            generateAdditionalWaypoints(intent.start, intent.end, target,
                                        estimatedMiles)
      IN IF 10 * estimatedMiles < 8 * target /\ Len(additionalWaypoints) > 0
           THEN [intent EXCEPT !.waypoints =
                   Some(additionalWaypoints \o waypointsOf(intent))]
           ELSE intent
    ELSE intent

\* Step 2 of generateRoute (lines 361-387): the intent after validation.
validateDistance(intent) ==
  IF IsSome(intent.distance_miles) /\ Get(intent.distance_miles) > 0
    THEN
      LET target == Get(intent.distance_miles)
          coords == <<intent.start>> \o waypointsOf(intent) \o <<intent.end>>
          estimatedMiles == estimateRouteDistance(coords)
          additionalWaypoints ==
            generateAdditionalWaypoints(intent.start, intent.end, target,
                                        estimatedMiles)
      IN \* estimatedMiles < intent.distance_miles * 0.8
         IF 10 * estimatedMiles < 8 * target /\ Len(additionalWaypoints) > 0
           THEN [intent EXCEPT !.waypoints =
                   Some(waypointsOf(intent) \o additionalWaypoints)]
           ELSE intent
    ELSE intent

\* ---------------------------------------------------------- StatsCalculator

\* A route of the directions provider.  legs is None when the reply carries
\* no iterable legs.
Route(geometry, distance, duration, legs) ==
  [geometry |-> geometry, distance |-> distance, duration |-> duration,
   legs |-> legs]

RECURSIVE countTurns(_)
countTurns(steps) ==
  IF steps = <<>> THEN 0
  ELSE (IF Head(steps) \notin {"depart", "arrive"} THEN 1 ELSE 0)
       + countTurns(Tail(steps))

RECURSIVE elevationGain(_)
elevationGain(elevation) ==
  IF Len(elevation) <= 1 THEN 0
  ELSE (IF elevation[2] - elevation[1] > 0 THEN elevation[2] - elevation[1]
        ELSE 0)
       + elevationGain(Tail(elevation))

NoStats ==
  [distance_miles |-> 0, elevation_gain_feet |-> 0, num_turns |-> 0,
   duration_minutes |-> 0]

\* calculateStats: [threw, stats].  distance_miles is in hundredths of a
\* mile: meters * 0.000621371 rounded to 2 decimals; the factor is held to
\* 8 decimals.  Iterating legs that are not there throws.
calculateStats(mapboxRoute, elevation) ==
  IF ~IsSome(mapboxRoute.legs) THEN [threw |-> TRUE, stats |-> NoStats]
  ELSE
    [threw |-> FALSE,
     stats |->
       [distance_miles |-> RoundDiv(mapboxRoute.distance * 62137, 1000000),
        elevation_gain_feet |->
          RoundDiv(elevationGain(elevation) * 328084, 100000),
        num_turns |->
          SeqSum([i \in 1..Len(Get(mapboxRoute.legs)) |->
                    countTurns(Get(mapboxRoute.legs)[i])]),
        duration_minutes |-> RoundDiv(mapboxRoute.duration, 60)]]

\* A margin test that also fires at exactly 15%.
errorMarginTooHigh_AtLeast(actual, target) ==
  IF target > 0 THEN 100 * Abs(actual - target) >= 15 * target ELSE FALSE

\* errorMargin > 0.15 with errorMargin = |actual - target| / target
\* (lines 398-402); a target of 0 is falsy and a negative target gives a
\* negative margin.
errorMarginTooHigh(actual, target) ==
  IF target > 0 THEN 100 * Abs(actual - target) > 15 * target ELSE FALSE

\* if (intent.distance_miles) { ... if (errorMargin > 0.15) ... }
needsCorrection(intent, stats) ==
  /\ IsSome(intent.distance_miles)
  /\ Get(intent.distance_miles) # 0
  /\ errorMarginTooHigh(stats.distance_miles, Get(intent.distance_miles))

\* -------------------------------------------------------- ElevationEnricher

\* What the elevation service answers: the fetch rejects, an error status,
\* a body that is not the expected JSON (response.json() or data.results.map
\* throws), or a list of results whose elevation may be missing.
ElevThrow == [kind |-> "throw", results |-> <<>>]
ElevStatus == [kind |-> "status", results |-> <<>>]
ElevMalformed == [kind |-> "malformed", results |-> <<>>]
ElevOk(results) == [kind |-> "ok", results |-> results]

\* An enrichWithElevation without its try/catch: what the fetch or the body
\* throws rejects the promise.
enrichWithElevation_NoCatch(reply) ==
  IF reply.kind = "ok"
    THEN [rejected |-> FALSE,
          elevation |-> [i \in 1..Len(reply.results) |->
                           IF IsSome(reply.results[i])
                             THEN Get(reply.results[i]) ELSE 0]]
    ELSE [rejected |-> reply.kind \in {"throw", "malformed"},
          elevation |-> <<>>]

\* enrichWithElevation: [rejected, elevation].
enrichWithElevation(reply) ==
  IF reply.kind = "ok"
    THEN [rejected |-> FALSE,
          elevation |-> [i \in 1..Len(reply.results) |->
                           IF IsSome(reply.results[i])
                             THEN Get(reply.results[i]) ELSE 0]]
    ELSE [rejected |-> FALSE, elevation |-> <<>>]

\* ------------------------------------------------------ the collaborators
\* The replies the external collaborators may give.

\* Green Lake: a polygon 3.5 miles north of the user.
LakeRing ==
  << <<-1223493, 476705>>, <<-1223393, 476705>>, <<-1223393, 476805>>,
     <<-1223493, 476805>>, <<-1223493, 476705>> >>
LakeFeature ==
  Feature("Green Lake", <<-1223493, 476705>>, PolygonGeom(<<LakeRing>>), None)

\* A Green Lake 27.6 miles away, outside the radius.
FarLakeFeature ==
  Feature("Green Lake", <<-1223493, 480205>>,
          PointGeom(<<-1223493, 480205>>), None)

\* A Green Lake 41.5 miles away, farther outside the radius.
FartherLakeFeature ==
  Feature("Green Lake", <<-1223493, 482205>>,
          PointGeom(<<-1223493, 482205>>), None)

KerryFeature ==
  Feature("Kerry Park", <<-1223493, 476295>>,
          PointGeom(<<-1223493, 476295>>), None)

\* The same place under another spelling, with a bounding box.
KerryBoxFeature ==
  Feature("KERRY PARK", <<-1223493, 476295>>,
          PointGeom(<<-1223493, 476295>>),
          Some(<<-1223503, 476285, -1223483, 476305>>))

PikeFeature ==
  Feature("Pike Place", <<-1223493, 476097>>,
          PointGeom(<<-1223493, 476097>>), None)

FeatureLists(phrase) ==
  CASE phrase = "Green Lake" -> {<<FarLakeFeature, LakeFeature>>}
    [] phrase = "Kerry Park" -> {<<KerryFeature>>}
    [] phrase = "Pike Place" -> {<<PikeFeature, KerryBoxFeature>>}
    [] OTHER -> {}

GeocoderReplies(phrase) ==
  {ReplyThrow, ReplyStatus, ReplyOk(<<>>)}
    \cup {ReplyOk(fs) : fs \in FeatureLists(phrase)}

\* Intents: no distance target; a 5 mile loop without waypoints; a target
\* of 0.
IntentNoTarget == Intent(UserPt, North(200), Some(<<North(100)>>), None)
IntentLoop5 == Intent(UserPt, UserPt, None, Some(500))
IntentZero == Intent(UserPt, UserPt, Some(<<North(300)>>), Some(0))

Intents == {IntentNoTarget, IntentLoop5, IntentZero}

ParseReplies == {ParseThrow, ParseNull} \cup {ParseOk(i) : i \in Intents}

\* The text of a backend reply is a sequence of tokens: white space, the
\* fence of three backquotes, the tag "json", and payloads.  Two payloads are JSON texts of
\* an intent; any other token is not JSON.
FENCE == "<fence>"

jsonValue(token) ==
  CASE token = "{A}" -> Some(IntentNoTarget)
    [] token = "{B}" -> Some(IntentLoop5)
    [] OTHER -> None

\* JSON.parse: [threw, value].  White space around the value is allowed.
jsonParse(text) ==
  LET t == trim(text) IN
  IF Len(t) = 1
    THEN [threw |-> ~IsSome(jsonValue(t[1])), value |-> jsonValue(t[1])]
    ELSE [threw |-> TRUE, value |-> None]

\* The first index from i on where the token is, or 0.
RECURSIVE IndexOfToken(_, _, _)
IndexOfToken(text, token, i) ==
  IF i > Len(text) THEN 0
  ELSE IF text[i] = token THEN i
  ELSE IndexOfToken(text, token, i + 1)

\* jsonStr.match of the pattern fence, optional json, white space, lazy
\* group, white space, fence: the captured group, or None without an opening
\* and a closing fence.
codeBlockMatch(text) ==
  LET open == IndexOfToken(text, FENCE, 1)
      close == IF open = 0 THEN 0 ELSE IndexOfToken(text, FENCE, open + 1)
  IN IF close = 0 THEN None
     ELSE LET inner == SubSeq(text, open + 1, close - 1)
              body == IF inner # <<>> /\ Head(inner) = "json"
                        THEN Tail(inner) ELSE inner
          IN Some(trim(body))

\* The end of parseIntent, from the content of the backend's reply on
\* (anthropic.ts 139-153, openai.ts 90-96, gemini.ts 93-99): [threw, message,
\* value]; the message is the text the error carries.
parseIntent(kind, content) ==
  LET stripped == IF IsSome(codeBlockMatch(trim(content)))
                    THEN Get(codeBlockMatch(trim(content)))
                    ELSE trim(content)
      jsonStr == IF kind = "anthropic" THEN stripped ELSE content
      r == jsonParse(jsonStr)
  IN [threw |-> r.threw, message |-> IF r.threw THEN jsonStr ELSE <<>>,
      value |-> r.value]

Geometry(coordinates) == [type |-> "LineString", coordinates |-> coordinates]

GeometryB == Geometry(<< <<-1223493, 476205>>, <<-1223493, 476505>> >>)
GeometryC == Geometry(<< <<-1223493, 476205>>, <<-1223493, 476605>> >>)
GeometryD == Geometry(<< <<-1223493, 476205>>, <<-1223493, 476705>> >>)

Legs == Some(<< <<"depart", "turn", "arrive">> >>)

\* 9254 m is 5.75 miles (15% over 5 miles) and 9270 m is 5.76 miles; the
\* last route has no legs.
Route575 == Route(GeometryB, 9254, 6000, Legs)
Route576 == Route(GeometryC, 9270, 6030, Legs)
RouteNoLegs == Route(GeometryD, 9270, 6030, None)

Routes == {Route575, Route576, RouteNoLegs}

\* The directions call throws (error status, rejected fetch), returns no
\* routes, or returns routes of which the first is taken.
DirThrow == [kind |-> "throw", route |-> None]
DirNoRoutes == [kind |-> "noroutes", route |-> None]
DirOk(route) == [kind |-> "ok", route |-> Some(route)]

\* Without an access token the directions service answers 401, which
\* generateMapboxRoute throws on (lines 122-125).
DirectionsReplies(mapboxToken) ==
  IF Truthy(mapboxToken)
    THEN {DirThrow, DirNoRoutes} \cup {DirOk(r) : r \in Routes}
    ELSE {DirThrow}

ElevationReplies ==
  {ElevThrow, ElevStatus, ElevMalformed,
   ElevOk(<<Some(100), Some(105), Some(95), Some(110)>>)}

NameReplies ==
  {NameThrow, NameStatus, NameMalformed, NameOk(<<"Harbor", " ", "Loop">>)}

\* crypto.randomUUID(): the n-th identifier drawn.
randomUUID(n) == <<"uuid-1", "uuid-2", "uuid-3", "uuid-4", "uuid-5",
                   "uuid-6">>[n]

\* The environments a deployment may have.
Env(anthropic, openai, gemini, mapbox) ==
  [ANTHROPIC_API_KEY |-> anthropic, OPENAI_API_KEY |-> openai,
   GEMINI_API_KEY |-> gemini, MAPBOX_TOKEN |-> mapbox]

Envs ==
  {Env(Unset, Unset, Unset, "pk"), Env("sk-ant", "sk-oa", "g-key", "pk"),
   Env("sk-ant", Unset, Unset, Unset)}

\* The bodies a caller may post to /api/generate-route.
NoQuery == Query("", <<>>, <<>>)

Request(query, location, sessionId) ==
  [query |-> query, location |-> location, sessionId |-> sessionId]

\* A point on the equator: lat is 0.
EquatorPt == Pt(0, -1223493)

\* -------------------------------------------------------------------- state

VARIABLES
  env,          \* the deployment's bindings (credentials)
  store,        \* the durable key-value store SESSIONS: a set of entries
  uuids,        \* how many identifiers crypto.randomUUID has handed out
  served,       \* generate requests received so far
  pc,           \* where the request in progress waits
  request,      \* the body of the generate request in progress
  lookups,      \* one geocoding lookup per mention, in mention order
  locations,    \* locationResult.locations
  provider,     \* the provider ModelSelector returned
  intent,       \* the intent, None before the first parse
  mapboxRoute,  \* the current directions result, None before the first
  stats,        \* the current RouteStats
  elevTask,     \* the enrichWithElevation promise of Promise.all
  nameTask,     \* the generateName promise of Promise.all
  genResponse,  \* the response to the generate request
  getResponse,  \* the response to the last lookup request
  calls,        \* calls issued to each collaborator by the request
  first,        \* history: the first directions result, its stats, its intent
  correction,   \* history: how far the self-correction got
  failedAt,     \* history: the statement that threw
  written,      \* history: the keys put so far
  returned,     \* history: the bodies of the 200 generate responses, in order
  sent,         \* the arguments of the last call issued to each collaborator
  newIntent,    \* what the corrective parseIntent returned, None before
  probe         \* the last call of a function on its own: name, input, output

vars ==
  << env, store, uuids, served, pc, request, lookups, locations, provider,
     intent, mapboxRoute, stats, elevTask, nameTask, genResponse,
     getResponse, calls, first, correction, failedAt, written, returned,
     sent, newIntent, probe >>

NoProvider == [kind |-> "none", apiKey |-> Unset, model |-> ""]
NoRequest == Request(NoQuery, None, Unset)

\* The requests a caller may post; a location is None when the body has none.
ValidLocation == Some(UserPt)
NoCalls ==
  [geocode |-> 0, parse |-> 0, directions |-> 0, elevation |-> 0,
   name |-> 0, put |-> 0]
IdleTask == [state |-> "idle", reply |-> "", value |-> <<>>]
PendingTask == [state |-> "pending", reply |-> "", value |-> <<>>]
NoResponse == [status |-> 0, body |-> [error |-> ""]]
NoSent == [parse |-> None, directions |-> None, elevation |-> None,
           name |-> None]
NoProbe == [fn |-> "", input |-> <<>>, output |-> <<>>]
NoLookup == [asked |-> FALSE, sessionId |-> "", routeId |-> "",
             status |-> 0, body |-> [error |-> ""]]

Init ==
  /\ env \in Envs
  /\ store = {}
  /\ uuids = 0
  /\ served = 0
  /\ pc = "idle"
  /\ request = NoRequest
  /\ lookups = <<>>
  /\ locations = <<>>
  /\ provider = NoProvider
  /\ intent = None
  /\ mapboxRoute = None
  /\ stats = NoStats
  /\ elevTask = IdleTask
  /\ nameTask = IdleTask
  /\ genResponse = NoResponse
  /\ getResponse = NoLookup
  /\ calls = NoCalls
  /\ first = None
  /\ correction = "none"
  /\ failedAt = ""
  /\ written = {}
  /\ returned = <<>>
  /\ sent = NoSent
  /\ newIntent = None
  /\ probe = NoProbe

\* No request is in progress.
Quiescent == pc \in {"idle", "done", "failed", "rejected"}

\* jsonResponse / errorResponse
jsonResponse(data, status) == [status |-> status, body |-> data]
errorResponse(message, status) == jsonResponse([error |-> message], status)

\* JSON.stringify and JSON.parse of a RouteData: the stored value is text.
stringify(routeData) == [json |-> routeData]
parse(text) == text.json

kvKey(sessionId, routeId) == <<"route", sessionId, routeId>>

\* env.SESSIONS.get(key): the text stored under the key, or None.
kvGet(kv, key) ==
  IF \E e \in kv : e.key = key
    THEN Some((CHOOSE e \in kv : e.key = key).value)
    ELSE None

\* env.SESSIONS.put(key, value, {expirationTtl})
kvPut(kv, key, value, ttl) ==
  {e \in kv : e.key # key}
    \cup {[key |-> key, value |-> value, expirationTtl |-> ttl]}

\* ------------------------------------------------------- request handlers

\* The catch of handleGenerateRoute (lines 494-497): the request ends with
\* a 500 response.
Fail(at, message) ==
  /\ pc' = "failed"
  /\ failedAt' = at
  /\ genResponse' = errorResponse(message, 500)

\* The validation of handleGenerateRoute (line 481).
missingFields(body) ==
  IF ~Truthy(body.query.text) THEN TRUE
  ELSE IF ~IsSome(body.location) THEN TRUE
  ELSE IF Get(body.location).lat = 0 THEN TRUE
  ELSE Get(body.location).lng = 0

\* The state a generate request starts from.
FreshRequest(body) ==
  /\ request' = body
  /\ served' = served + 1
  /\ intent' = None
  /\ mapboxRoute' = None
  /\ stats' = NoStats
  /\ elevTask' = IdleTask
  /\ nameTask' = IdleTask
  /\ first' = None
  /\ correction' = "none"
  /\ newIntent' = None
  /\ getResponse' = NoLookup

\* The feedback query of lines 405-412: the original request inside a
\* template of more than twenty words, some of them in capitals.
FeedbackWords ==
  <<"ORIGINAL", "REQUEST:", "PREVIOUS", "ATTEMPT", "STATS:", "miles.",
    "TARGET:", "miles.", "ERROR:", "The", "route", "was", "too", "short.",
    "INSTRUCTION:", "Please", "adjust", "the", "waypoints", "to", "get",
    "closer">>

feedbackQuery(query) ==
  Query("feedback: " \o query.text,
        <<"\n">> \o Spaced(FeedbackWords) \o <<" ">> \o query.tokens
          \o <<"\n">>,
        query.detections)

\* A correction that selects its provider again, on the feedback query.
correctiveProvider_Reselected(chosen, e, query) ==
  getProvider(e, feedbackQuery(query))

\* The provider of the corrective parseIntent (line 415): the constant
\* provider of line 351.
correctiveProvider(chosen, e, query) == chosen

\* The arguments of a call of parseIntent: the provider it is called on,
\* the query and the rendered locations.
ParseCall(on, query, locationContext) ==
  [provider |-> on, query |-> query, locationContext |-> locationContext]

\* generateRoute, lines 341-357: render the locations, select the provider
\* and issue the first parseIntent; getProvider may throw.
SelectAndParse(query, locs, issued) ==
  /\ locations' = locs
  /\ IF getProvider(env, query) = ConfigError
       THEN /\ provider' = NoProvider
            /\ calls' = issued
            /\ sent' = NoSent
            /\ Fail("config", ConfigError.model)
       ELSE /\ provider' = getProvider(env, query)
            /\ calls' = [issued EXCEPT !.parse = @ + 1]
            /\ sent' = [NoSent EXCEPT !.parse =
                          Some(ParseCall(getProvider(env, query), query,
                                         formatLocationsForPrompt(locs)))]
            /\ pc' = "parse1"
            /\ failedAt' = ""
            /\ genResponse' = NoResponse

\* POST /api/generate-route with a body the validation refuses.
RejectGenerate(body) ==
  /\ Quiescent
  /\ served < MaxRequests
  /\ missingFields(body)
  /\ FreshRequest(body)
  /\ pc' = "rejected"
  /\ genResponse' =
       errorResponse("Missing required fields: query, location.lat, location.lng",
                     400)
  /\ lookups' = <<>>
  /\ locations' = <<>>
  /\ provider' = NoProvider
  /\ calls' = NoCalls
  /\ failedAt' = ""
  /\ sent' = NoSent
  /\ UNCHANGED << env, store, uuids, written, returned >>
  /\ UNCHANGED probe

\* resolveLocations returns at once: no geocoder token, or no mention
\* (lines 298-306).
skipsResolution(body) ==
  \/ ~Truthy(env.MAPBOX_TOKEN)
  \/ Len(extractLocationMentions(body.query)) = 0

\* POST /api/generate-route, no lookup to make: generateRoute runs up to the
\* first parseIntent.
StartGenerateDirect(body) ==
  /\ Quiescent
  /\ served < MaxRequests
  /\ ~missingFields(body)
  /\ skipsResolution(body)
  /\ FreshRequest(body)
  /\ lookups' = <<>>
  /\ SelectAndParse(body.query, <<>>, NoCalls)
  /\ UNCHANGED << env, store, uuids, written, returned >>
  /\ UNCHANGED probe

\* POST /api/generate-route: resolveLocations issues one geocoding fetch per
\* mention (the map of line 310 runs every callback up to its fetch) and
\* waits in Promise.all.
StartGenerate(body) ==
  /\ Quiescent
  /\ served < MaxRequests
  /\ ~missingFields(body)
  /\ ~skipsResolution(body)
  /\ FreshRequest(body)
  /\ LET mentions == extractLocationMentions(body.query) IN
       /\ lookups' = [i \in 1..Len(mentions) |->
                        [mention |-> mentions[i], state |-> "pending",
                         reply |-> ReplyOk(<<>>), candidates |-> <<>>,
                         order |-> 0]]
       /\ calls' = [NoCalls EXCEPT !.geocode = Len(mentions)]
  /\ pc' = "geocoding"
  /\ locations' = <<>>
  /\ provider' = NoProvider
  /\ genResponse' = NoResponse
  /\ failedAt' = ""
  /\ sent' = NoSent
  /\ UNCHANGED << env, store, uuids, written, returned >>
  /\ UNCHANGED probe

\* How many lookups have settled; a lookup's order is its rank among the
\* completions.
settledCount(ls) ==
  Cardinality({j \in 1..Len(ls) : ls[j].state = "settled"})

\* Results that come in the order the lookups completed.
joined_ByCompletion(ls) ==
  [k \in 1..Len(ls) |->
     ls[CHOOSE j \in 1..Len(ls) : ls[j].order = k].candidates]

\* The value of Promise.all (line 320): the results in the order of the
\* promises, that is of the mentions.
joined(ls) == [j \in 1..Len(ls) |-> ls[j].candidates]

\* A join that resolves as soon as one lookup has settled.
allSettled_Any(ls) == \E j \in 1..Len(ls) : ls[j].state = "settled"

\* Promise.all(geocodingPromises) (line 320) resolves when every promise
\* has.
allSettled(ls) == \A j \in 1..Len(ls) : ls[j].state = "settled"

\* One geocoding fetch settles.  When it is the last, Promise.all resolves
\* and resolveLocations merges and sorts (lines 322-340), then generateRoute
\* goes on to the first parseIntent.
GeocodeSettle(i, reply) ==
  /\ pc = "geocoding"
  /\ i \in 1..Len(lookups)
  /\ lookups[i].state = "pending"
  /\ reply \in GeocoderReplies(lookups[i].mention.phrase)
  /\ LET r == lookupMention(lookups[i].mention, Get(request.location), reply)
         ls == [lookups EXCEPT ![i] =
                  [@ EXCEPT !.state = "settled", !.reply = reply,
                            !.candidates = r.candidates,
                            !.order = settledCount(lookups) + 1]]
         results == joined(ls)
     IN /\ lookups' = ls
        /\ IF r.rejected
             THEN /\ Fail("geocode", "fetch failed")
                  /\ UNCHANGED << locations, provider, calls, sent >>
           ELSE IF allSettled(ls)
             THEN SelectAndParse(request.query,
                                 sortByDistance(mergeResults(<<>>, results, 1)),
                                 calls)
           ELSE UNCHANGED << pc, failedAt, genResponse, locations, provider,
                             calls, sent >>
  /\ UNCHANGED << env, store, uuids, served, request, intent, mapboxRoute,
                  stats, elevTask, nameTask, getResponse, first, correction,
                  written, returned, newIntent >>
  /\ UNCHANGED probe

\* The first parseIntent settles.  A throw ends the request; so does a null
\* intent, at line 362.  Otherwise the distance validation runs and the
\* first directions call is issued (lines 361-390).
Parse1Settle(reply) ==
  /\ pc = "parse1"
  /\ reply \in ParseReplies
  /\ lookups' = <<>>
  /\ IF reply.kind = "throw"
       THEN /\ Fail("parse1", "Failed to parse response as JSON")
            /\ UNCHANGED << intent, calls, sent >>
     ELSE IF reply.kind = "null"
       THEN /\ Fail("parse1", "Cannot read properties of null")
            /\ UNCHANGED << intent, calls, sent >>
     ELSE /\ intent' = Some(validateDistance(Get(reply.intent)))
          /\ calls' = [calls EXCEPT !.directions = @ + 1]
          /\ sent' = [sent EXCEPT !.directions =
                        Some(validateDistance(Get(reply.intent)))]
          /\ pc' = "directions1"
          /\ UNCHANGED << failedAt, genResponse >>
  /\ UNCHANGED << env, store, uuids, served, request, locations, provider,
                  mapboxRoute, stats, elevTask, nameTask, getResponse, first,
                  correction, written, returned, newIntent >>
  /\ UNCHANGED probe

\* The arguments of a call of generateName: the provider it is called on,
\* the query and the stats.
NameCall(on, query, currentStats) ==
  [provider |-> on, query |-> query, stats |-> currentStats]

\* An enrichment that asks for the elevation of the first route's geometry.
StartEnrichment_FirstGeometry(issued, route, currentStats) ==
  /\ pc' = "enrich"
  /\ elevTask' = PendingTask
  /\ nameTask' = PendingTask
  /\ calls' = [issued EXCEPT !.elevation = @ + 1, !.name = @ + 1]
  /\ sent' = [sent EXCEPT
                !.elevation = Some(IF IsSome(first) THEN Get(first).route.geometry
                                   ELSE route.geometry),
                !.name = Some(NameCall(provider, request.query, currentStats))]

\* Promise.all of lines 438-441: enrichWithElevation(mapboxRoute.geometry)
\* and provider.generateName(request.query, stats) are both issued before
\* either is awaited.
StartEnrichment(issued, route, currentStats) ==
  /\ pc' = "enrich"
  /\ elevTask' = PendingTask
  /\ nameTask' = PendingTask
  /\ calls' = [issued EXCEPT !.elevation = @ + 1, !.name = @ + 1]
  /\ sent' = [sent EXCEPT
                !.elevation = Some(route.geometry),
                !.name = Some(NameCall(provider, request.query, currentStats))]

\* The first directions call settles (generateMapboxRoute, lines 120-133)
\* and the stats without elevation decide on the correction (lines 393-419).
Directions1Settle(reply) ==
  /\ pc = "directions1"
  /\ reply \in DirectionsReplies(env.MAPBOX_TOKEN)
  /\ IF reply.kind = "throw"
       THEN /\ Fail("directions1", "Mapbox API error")
            /\ UNCHANGED << mapboxRoute, stats, first, correction, calls,
                            elevTask, nameTask, sent >>
     ELSE IF reply.kind = "noroutes"
       THEN /\ Fail("directions1", "No routes found from Mapbox")
            /\ UNCHANGED << mapboxRoute, stats, first, correction, calls,
                            elevTask, nameTask, sent >>
     ELSE
       LET route == Get(reply.route)
           cs == calculateStats(route, <<>>)
       IN /\ mapboxRoute' = Some(route)
          /\ IF cs.threw
               THEN /\ Fail("stats1", "mapboxRoute.legs is not iterable")
                    /\ UNCHANGED << stats, first, correction, calls, elevTask,
                                    nameTask, sent >>
             ELSE /\ stats' = cs.stats
                  /\ first' = Some([route |-> route, stats |-> cs.stats,
                                  intent |-> Get(intent)])
                  /\ UNCHANGED << failedAt, genResponse >>
                  /\ IF needsCorrection(Get(intent), cs.stats)
                       THEN /\ pc' = "parse2"
                            /\ correction' = "attempted"
                            /\ calls' = [calls EXCEPT !.parse = @ + 1]
                            /\ sent' = [sent EXCEPT !.parse =
                                          Some(ParseCall(
                                            correctiveProvider(provider, env,
                                                               request.query),
                                            feedbackQuery(request.query),
                                            formatLocationsForPrompt(
                                              locations)))]
                            /\ UNCHANGED << elevTask, nameTask >>
                       ELSE /\ StartEnrichment(calls, route, cs.stats)
                            /\ UNCHANGED correction
  /\ UNCHANGED << env, store, uuids, served, request, lookups, locations,
                  provider, intent, getResponse, written, returned,
                  newIntent >>
  /\ UNCHANGED probe

\* A correction that validates the distance of the corrected intent again.
correctedIntent_Revalidated(currentIntent, corrective) ==
  validateDistance([currentIntent EXCEPT !.waypoints = corrective.waypoints])

\* intent.waypoints = newIntent.waypoints (line 422): the intent of the
\* second directions call.
correctedIntent(currentIntent, corrective) ==
  [currentIntent EXCEPT !.waypoints = corrective.waypoints]

\* The corrective parseIntent settles (lines 415-425).  Whatever it throws
\* is caught at line 429 and the request goes on with the first route.
Parse2Settle(reply) ==
  /\ pc = "parse2"
  /\ reply \in ParseReplies
  /\ IF reply.kind = "ok"
       THEN /\ newIntent' = reply.intent
            /\ intent' = Some(correctedIntent(Get(intent), Get(reply.intent)))
            /\ pc' = "directions2"
            /\ calls' = [calls EXCEPT !.directions = @ + 1]
            /\ sent' = [sent EXCEPT !.directions =
                          Some(correctedIntent(Get(intent),
                                               Get(reply.intent)))]
            /\ UNCHANGED << elevTask, nameTask, correction >>
       ELSE /\ UNCHANGED << intent, newIntent >>
            /\ correction' = "failed"
            /\ StartEnrichment(calls, Get(mapboxRoute), stats)
  /\ UNCHANGED << env, store, uuids, served, request, lookups, locations,
                  provider, mapboxRoute, stats, genResponse, getResponse,
                  first, failedAt, written, returned >>
  /\ UNCHANGED probe

\* A generateRoute that would correct again while the error stays above the
\* margin.
nextAfterRetry_Again(currentIntent, currentStats) ==
  IF needsCorrection(currentIntent, currentStats) THEN "parse2" ELSE "enrich"

\* Where generateRoute goes after the retry (lines 425-436): on to step 4.
nextAfterRetry(currentIntent, currentStats) == "enrich"

\* The second directions call settles (lines 425-432).
Directions2Settle(reply) ==
  /\ pc = "directions2"
  /\ reply \in DirectionsReplies(env.MAPBOX_TOKEN)
  /\ LET route == IF reply.kind = "ok" THEN reply.route ELSE mapboxRoute
         cs == calculateStats(Get(route), <<>>)
         newStats == IF reply.kind = "ok" /\ ~cs.threw THEN cs.stats
                     ELSE stats
     IN /\ mapboxRoute' = route
        /\ stats' = newStats
        /\ correction' = IF reply.kind = "ok" /\ ~cs.threw THEN "applied"
                         ELSE "failed"
        /\ IF nextAfterRetry(Get(intent), newStats) = "enrich"
             THEN StartEnrichment(calls, Get(route), newStats)
             ELSE /\ pc' = "parse2"
                  /\ calls' = [calls EXCEPT !.parse = @ + 1]
                  /\ UNCHANGED << elevTask, nameTask, sent >>
  /\ UNCHANGED << env, store, uuids, served, request, lookups, locations,
                  provider, intent, genResponse, getResponse, first, failedAt,
                  written, returned, newIntent >>
  /\ UNCHANGED probe

\* A session identifier that is drawn afresh for every route.
sessionIdFor_AlwaysFresh(requested, fresh) == fresh

\* request.sessionId || crypto.randomUUID() (line 447)
sessionIdFor(requested, fresh) ==
  IF Truthy(requested) THEN requested ELSE fresh

\* The object handleGenerateRoute answers with (lines 487-493).
generateBody(routeData) ==
  [sessionId |-> routeData.sessionId, routeId |-> routeData.routeId,
   name |-> routeData.name, geometry |-> routeData.geometry,
   stats |-> routeData.stats]

\* Steps 5 to 9 of generateRoute and the response (lines 443-467, 487-493):
\* final stats, the identifiers, the put, the 200 response.
Finalize(elevation, name) ==
  LET cs == calculateStats(Get(mapboxRoute), elevation) IN
  IF cs.threw
    THEN /\ Fail("stats2", "mapboxRoute.legs is not iterable")
         /\ UNCHANGED << stats, store, uuids, written, returned, calls >>
    ELSE
      LET sessionId == sessionIdFor(request.sessionId, randomUUID(uuids + 1))
          drawn == IF Truthy(request.sessionId) THEN 0 ELSE 1
          routeId == randomUUID(uuids + drawn + 1)
          routeData ==
            [sessionId |-> sessionId, routeId |-> routeId,
             geometry |-> Get(mapboxRoute).geometry, stats |-> cs.stats,
             originalQuery |-> request.query.text, name |-> name,
             elevation |-> elevation, createdAt |-> served]
      IN /\ stats' = cs.stats
         /\ uuids' = uuids + drawn + 1
         /\ store' = kvPut(store, kvKey(sessionId, routeId),
                           stringify(routeData), KV_TTL_SECONDS)
         /\ written' = written \cup {kvKey(sessionId, routeId)}
         /\ calls' = [calls EXCEPT !.put = @ + 1]
         /\ genResponse' = jsonResponse(generateBody(routeData), 200)
         /\ returned' = Append(returned, generateBody(routeData))
         /\ pc' = "done"
         /\ failedAt' = ""

\* The elevation fetch settles.  When the name is there too, Promise.all
\* resolves and generateRoute finishes.
ElevationSettle(reply) ==
  /\ pc = "enrich"
  /\ elevTask.state = "pending"
  /\ reply \in ElevationReplies
  /\ LET r == enrichWithElevation(reply) IN
       IF r.rejected
         THEN /\ elevTask' = [state |-> "rejected", reply |-> reply.kind,
                              value |-> <<>>]
              /\ Fail("elevation", "fetch failed")
              /\ UNCHANGED << stats, store, uuids, written, returned, calls >>
         ELSE /\ elevTask' = [state |-> "resolved", reply |-> reply.kind,
                              value |-> r.elevation]
              /\ IF nameTask.state = "resolved"
                   THEN Finalize(r.elevation, nameTask.value)
                   ELSE UNCHANGED << pc, failedAt, genResponse, stats, store,
                                     uuids, written, returned, calls >>
  /\ UNCHANGED << env, served, request, lookups, locations, provider, intent,
                  mapboxRoute, nameTask, getResponse, first, correction,
                  sent, newIntent >>
  /\ UNCHANGED probe

\* The generateName fetch settles.  A rejection rejects Promise.all at once.
NameSettle(reply) ==
  /\ pc = "enrich"
  /\ nameTask.state = "pending"
  /\ reply \in NameReplies
  /\ LET r == generateName(reply) IN
       IF r.rejected
         THEN /\ nameTask' = [state |-> "rejected", reply |-> reply.kind,
                              value |-> <<>>]
              /\ Fail("name", "fetch failed")
              /\ UNCHANGED << stats, store, uuids, written, returned, calls >>
         ELSE /\ nameTask' = [state |-> "resolved", reply |-> reply.kind,
                              value |-> r.name]
              /\ IF elevTask.state = "resolved"
                   THEN Finalize(elevTask.value, r.name)
                   ELSE UNCHANGED << pc, failedAt, genResponse, stats, store,
                                     uuids, written, returned, calls >>
  /\ UNCHANGED << env, served, request, lookups, locations, provider, intent,
                  mapboxRoute, elevTask, getResponse, first, correction,
                  sent, newIntent >>
  /\ UNCHANGED probe

\* A lookup that builds its key with the two identifiers exchanged.
handleGetRoute_Exchanged(kv, sessionId, routeId) ==
  LET data == kvGet(kv, kvKey(routeId, sessionId)) IN
  IF ~IsSome(data) THEN errorResponse("Route not found", 404)
  ELSE jsonResponse(parse(Get(data)), 200)

\* handleGetRoute (lines 500-519)
handleGetRoute(kv, sessionId, routeId) ==
  LET data == kvGet(kv, kvKey(sessionId, routeId)) IN
  IF ~IsSome(data) THEN errorResponse("Route not found", 404)
  ELSE jsonResponse(parse(Get(data)), 200)

\* The pairs a caller may ask for: the ones it was given, a route
\* identifier it was not given, and the two of a pair exchanged.
KnownPairs ==
  {<<returned[i].sessionId, returned[i].routeId>> : i \in 1..Len(returned)}
    \cup {<<returned[i].routeId, returned[i].sessionId>> :
            i \in 1..Len(returned)}
    \cup {<<"s1", "r0">>}

\* GET /api/route/:sessionId/:routeId
GetRoute(sessionId, routeId) ==
  /\ pc \in {"idle", "done"}
  /\ <<sessionId, routeId>> \in KnownPairs
  /\ LET r == handleGetRoute(store, sessionId, routeId) IN
       getResponse' =
         [asked |-> TRUE, sessionId |-> sessionId, routeId |-> routeId,
          status |-> r.status, body |-> r.body]
  /\ UNCHANGED << env, store, uuids, served, pc, request, lookups, locations,
                  provider, intent, mapboxRoute, stats, elevTask, nameTask,
                  genResponse, calls, first, correction, failedAt, written,
                  returned, sent, newIntent >>
  /\ UNCHANGED probe

Bodies ==
  {Request(QLoop, ValidLocation, Unset), Request(QAround, ValidLocation, "s1")}
    \cup {Request(QScenic, ValidLocation, sid) :
            sid \in {Unset}
                     \cup {returned[i].sessionId : i \in 1..Len(returned)}}
    \cup {Request(NoQuery, ValidLocation, Unset),
          Request(QLoop, None, Unset),
          Request(QLoop, Some(EquatorPt), Unset)}

Next ==
  \/ \E body \in Bodies : RejectGenerate(body)
  \/ \E body \in Bodies : StartGenerateDirect(body)
  \/ \E body \in Bodies : StartGenerate(body)
  \/ \E i \in 1..Len(lookups) :
       \E reply \in GeocoderReplies(lookups[i].mention.phrase) :
         GeocodeSettle(i, reply)
  \/ \E reply \in ParseReplies : Parse1Settle(reply)
  \/ \E reply \in DirectionsReplies(env.MAPBOX_TOKEN) :
       Directions1Settle(reply)
  \/ \E reply \in ParseReplies : Parse2Settle(reply)
  \/ \E reply \in DirectionsReplies(env.MAPBOX_TOKEN) :
       Directions2Settle(reply)
  \/ \E reply \in ElevationReplies : ElevationSettle(reply)
  \/ \E reply \in NameReplies : NameSettle(reply)
  \/ \E pair \in KnownPairs : GetRoute(pair[1], pair[2])

Spec == Init /\ [][Next]_vars

\* ------------------------------------------------- functions on their own
\* A second specification applies one function of the program at a time to
\* an input drawn from a bounded set and records the call in probe; the
\* request pipeline stays in its initial state.

requestVars ==
  << env, store, uuids, served, pc, request, lookups, locations, provider,
     intent, mapboxRoute, stats, elevTask, nameTask, genResponse,
     getResponse, calls, first, correction, failedAt, written, returned,
     sent, newIntent >>

Call(fn, input, output) ==
  /\ probe = NoProbe
  /\ probe' = [fn |-> fn, input |-> input, output |-> output]
  /\ UNCHANGED requestVars

\* n times the word.
Repeat(word, n) == [i \in 1..n |-> word]

\* Queries of 1 to MaxWords words: all lower case and without keyword, or
\* with a first word that has a keyword or a capital; with or without a
\* leading blank and a trailing blank.
TierQueries ==
  {Query("q", lead \o Spaced(head \o Repeat("run", n)) \o trail, <<>>) :
     n \in 0..(MaxWords - 1),
     head \in {<<"run">>, <<"scenic">>, <<"SCENIC">>, <<"review">>,
                <<"Green">>},
     lead \in {<<>>, <<" ">>},
     trail \in {<<>>, <<" ">>}}

CallDetermineTier(query) ==
  Call("determineTier", query, determineTier(query))

\* Every combination of the three credentials, each absent or set.
CredentialEnvs ==
  {Env(a, o, g, "pk") : a \in {Unset, "sk-ant"}, o \in {Unset, "sk-oa"},
                        g \in {Unset, "g-key"}}

CallGetProvider(e, query) ==
  Call("getProvider", [env |-> e, query |-> query], getProvider(e, query))

\* Replies of a backend: a payload, valid JSON or not, on its own or in a
\* fenced block with or without the json tag, with or without line breaks
\* inside and around.
Fenced(tag, before, payload, after) ==
  <<FENCE>> \o tag \o before \o <<payload>> \o after \o <<FENCE>>

BackendReplies ==
  {[kind |-> kind, payload |-> payload, fenced |-> TRUE,
    content |-> lead \o Fenced(tag, before, payload, after) \o trail] :
     kind \in {"anthropic", "openai", "gemini"},
     payload \in {"{A}", "{B}", "Sorry"},
     tag \in {<<>>, <<"json">>}, before \in {<<>>, <<"\n">>},
     after \in {<<>>, <<"\n">>}, lead \in {<<>>, <<"\n">>},
     trail \in {<<>>, <<"\n">>}}
  \cup
  {[kind |-> kind, payload |-> payload, fenced |-> FALSE,
    content |-> lead \o <<payload>> \o trail] :
     kind \in {"anthropic", "openai", "gemini"},
     payload \in {"{A}", "{B}", "Sorry"},
     lead \in {<<>>, <<"\n">>}, trail \in {<<>>, <<"\n">>}}

CallParseIntent(reply) ==
  Call("parseIntent", reply, parseIntent(reply.kind, reply.content))

\* The texts of up to MaxNameTokens tokens over two words, the blank and the
\* double quote, in which no word follows a word (a token is a whole run).
NameTokens == {"Harbor", "Loop", " ", "\""}

NameTexts ==
  {t \in UNION {[1..n -> NameTokens] : n \in 0..MaxNameTokens} :
     \A i \in 1..(Len(t) - 1) :
       ~(t[i] \in {"Harbor", "Loop"} /\ t[i + 1] \in {"Harbor", "Loop"})}

CallGenerateName(text) ==
  Call("generateName", text, generateName(NameOk(text)))

\* Queries with up to MaxDetections captures, in the order the rules run:
\* the around rule (perimeter), the destination and start rules
\* (destination), the via and capitalized rules (landmark).
RawPhrases ==
  {"Green Lake", " green lake", "the Green Lake.", "Kerry Park", ".."}

RulePurposes == {"perimeter", "destination", "landmark"}

DetectionLists ==
  {ds \in UNION {[1..n -> {Det(raw, purpose) : raw \in RawPhrases,
                                               purpose \in RulePurposes}] :
                   n \in 0..MaxDetections} :
     \A i \in 1..(Len(ds) - 1) :
       purposePriority(ds[i].purpose) >= purposePriority(ds[i + 1].purpose)}

CallExtractLocationMentions(detections) ==
  Call("extractLocationMentions", detections,
       extractLocationMentions(Query("q", <<>>, detections)))

\* Up to MaxLookups mentions, each answered by the geocoder with one
\* feature: a place without and, under another spelling, with a bounding
\* box, and another place.  The mentions are distinct phrases, in the order
\* extractLocationMentions returns them: the rules run from the highest
\* priority to the lowest and a Map keeps insertion order, so the purposes
\* never increase along the list.
MentionPhrases == <<"Kerry Park", "Pike Place", "Green Lake", "Discovery Park">>

MergeFeatures == {KerryFeature, KerryBoxFeature, PikeFeature}

Lookups ==
  {asked \in UNION {[1..n -> [feature : MergeFeatures,
                              purpose : RulePurposes]] :
                      n \in 0..MaxLookups} :
     \A i \in 1..(Len(asked) - 1) :
       purposePriority(asked[i].purpose)
         >= purposePriority(asked[i + 1].purpose)}

\* The results of Promise.all for the lookups, in mention order.
resultsOf(asked) ==
  [i \in 1..Len(asked) |->
     lookupMention(Mention(MentionPhrases[i], asked[i].purpose), UserPt,
                   ReplyOk(<<asked[i].feature>>)).candidates]

CallResolveLocations(asked) ==
  Call("resolveLocations", resultsOf(asked),
       sortByDistance(mergeResults(<<>>, resultsOf(asked), 1)))

\* Geocoder responses of up to MaxFeatures features, within and outside the
\* radius, in any order: the response is ordered by relevance.
FeatureResponses ==
  UNION {[1..n -> {KerryFeature, LakeFeature, FarLakeFeature,
                   FartherLakeFeature}] : n \in 0..MaxFeatures}

CallGeocodeMention(features) ==
  Call("geocodeMention", features,
       geocodeMention(Mention("Green Lake", "perimeter"), UserPt,
                      ReplyOk(features)).candidates)

\* The intents a provider may return: a loop or a way north, no waypoints
\* field or up to MaxWaypoints waypoints, and no distance, a negative one,
\* zero, or a target of up to MaxTarget hundredths of a mile.  The way out
\* to North(55) and back is estimated at 0.76 miles, 0.8 times 0.95.
ProviderWaypoints ==
  {None} \cup {Some(w) : w \in UNION {[1..n -> {North(55), North(300)}] :
                                        n \in 0..MaxWaypoints}}

ProviderIntents ==
  {Intent(UserPt, end, waypoints, distance_miles) :
     end \in {UserPt, North(200)},
     waypoints \in ProviderWaypoints,
     distance_miles \in {None, Some(-100)}
                          \cup {Some(t) : t \in 0..MaxTarget}}

CallValidateDistance(parsed) ==
  Call("validateDistance", parsed, validateDistance(parsed))

\* A ring of n distinct positions [lng, lat].
Ring(n) == [i \in 1..n |-> <<-1223493 + i, 476705 + i>>]

CallSampleRing(n) ==
  Call("sampleRing", Ring(n), sampleRing(Ring(n), MAX_PERIMETER_POINTS))

\* The geometries a feature may carry: a point, a polygon without rings, a
\* polygon with an outer ring and possibly a hole, a multipolygon without
\* polygons, and a multipolygon whose first polygon has an outer ring and
\* possibly a hole; each with and without a bounding box.
PerimeterGeometries ==
  {PointGeom(<<-1223493, 476705>>), PolygonGeom(<<>>), MultiPolygonGeom(<<>>)}
    \cup {PolygonGeom(<<Ring(n)>> \o holes) :
            n \in 0..MaxRingLength, holes \in {<<>>, <<Ring(3)>>}}
    \cup {MultiPolygonGeom(<< <<Ring(n)>> \o holes, <<Ring(4)>> >>) :
            n \in 0..MaxRingLength, holes \in {<<>>, <<Ring(3)>>}}

PerimeterFeatures ==
  {Feature("Green Lake", <<-1223493, 476705>>, geometry, bbox) :
     geometry \in PerimeterGeometries,
     bbox \in {None, Some(<<-1223503, 476695, -1223483, 476715>>)}}

CallExtractPerimeterPoints(feature) ==
  Call("extractPerimeterPoints", feature, extractPerimeterPoints(feature))

FunctionsInit == Init /\ env = Env("sk-ant", "sk-oa", "g-key", "pk")

FunctionsNext ==
  \/ /\ probe = NoProbe
     /\ \E query \in TierQueries : CallDetermineTier(query)
  \/ /\ probe = NoProbe
     /\ \E e \in CredentialEnvs, query \in Queries : CallGetProvider(e, query)
  \/ /\ probe = NoProbe
     /\ \E reply \in BackendReplies : CallParseIntent(reply)
  \/ /\ probe = NoProbe
     /\ \E text \in NameTexts : CallGenerateName(text)
  \/ /\ probe = NoProbe
     /\ \E detections \in DetectionLists :
          CallExtractLocationMentions(detections)
  \/ /\ probe = NoProbe
     /\ \E asked \in Lookups : CallResolveLocations(asked)
  \/ /\ probe = NoProbe
     /\ \E features \in FeatureResponses : CallGeocodeMention(features)
  \/ /\ probe = NoProbe
     /\ \E parsed \in ProviderIntents : CallValidateDistance(parsed)
  \/ /\ probe = NoProbe
     /\ \E n \in 0..MaxRingLength : CallSampleRing(n)
  \/ /\ probe = NoProbe
     /\ \E feature \in PerimeterFeatures : CallExtractPerimeterPoints(feature)

Functions == FunctionsInit /\ [][FunctionsNext]_vars

\* ------------------------------------------------------------- properties

\* The RouteData stored under the identifiers of the last 200 response.
persisted ==
  parse(Get(kvGet(store, <<"route", genResponse.body.sessionId,
                           genResponse.body.routeId>>)))

\* The last generate response of the history.
lastReturned == returned[Len(returned)]

\* C1: within one request parseIntent is called at most twice and the
\* directions provider at most twice; the corrective calls are only
\* outstanding during the one correction, and once the correction has been
\* applied or given up the request only goes on to enrichment, whatever the
\* error of the corrected route.
C1_CorrectionAtMostOnce ==
  /\ calls.parse <= 2
  /\ calls.directions <= 2
  /\ pc \in {"parse2", "directions2"} => correction = "attempted"
  /\ correction \in {"applied", "failed"} => pc \in {"enrich", "done", "failed"}

\* A request that finished after one applied correction whose route is still
\* more than 15% off the target.
C1_Witness ==
  /\ pc = "done"
  /\ correction = "applied"
  /\ calls.parse = 2
  /\ calls.directions = 2
  /\ IsSome(Get(intent).distance_miles)
  /\ 100 * Abs(stats.distance_miles - Get(Get(intent).distance_miles))
       > 15 * Get(Get(intent).distance_miles)

\* C2: when the corrective path fails (corrective parse throws or returns
\* null, second directions call errors or has no route, stats of the second
\* result throw) the request does not fail in the final stats, and a request
\* that succeeds stores the geometry and the distance of the first
\* directions result.
C2_CorrectionFailureKeepsFirstRoute ==
  correction = "failed" =>
    /\ failedAt # "stats2"
    /\ pc = "done" =>
         /\ persisted.geometry = Get(first).route.geometry
         /\ persisted.stats.distance_miles = Get(first).stats.distance_miles

\* C3: a generate request fails only for a missing provider credential, a
\* failure of the first parseIntent, or a first directions call without a
\* usable route.
C3_OnlyThreeFatalCauses ==
  pc = "failed" => failedAt \in {"config", "parse1", "directions1", "stats1"}

\* C4: the correction is attempted exactly when the intent has a distance
\* target and the first route's distance, from stats without elevation, is
\* off by strictly more than 15% of the target; otherwise there is one
\* parseIntent call and one directions call.
C4_CorrectionIffAboveMargin ==
  IF first = None
    THEN calls.parse <= 1 /\ calls.directions <= 1 /\ correction = "none"
    ELSE
      LET target == Get(intent).distance_miles
          actual == Get(first).stats.distance_miles
          above == IF ~IsSome(target) THEN FALSE
                   ELSE IF Get(target) <= 0 THEN FALSE
                   ELSE 100 * Abs(actual - Get(target)) > 15 * Get(target)
      IN /\ above <=> correction # "none"
         /\ above <=> calls.parse = 2
         /\ ~above => calls.parse = 1 /\ calls.directions = 1

\* A finished request whose first route is exactly 15% over the 5 mile
\* target: one parse, one directions call.
C4_Witness ==
  /\ pc = "done"
  /\ first # None
  /\ Get(intent).distance_miles = Some(500)
  /\ Get(first).stats.distance_miles = 575
  /\ correction = "none"
  /\ calls.parse = 1
  /\ calls.directions = 1

\* C5: a request that fails with the configuration error has issued no call
\* at all, the geocoding lookups included.
C5_ConfigErrorBeforeAnyCall ==
  failedAt = "config" => calls = NoCalls

\* C6: a name generation that fails (rejected fetch, error status, body
\* without content) resolves to the fallback name, does not fail the request,
\* and the stored name is 'Adventure Run'.
C6_NameFailureAbsorbed ==
  nameTask.reply \in {"throw", "status", "malformed"} =>
    /\ nameTask.state = "resolved"
    /\ nameTask.value = <<"Adventure", " ", "Run">>
    /\ failedAt # "name"
    /\ pc = "done" => persisted.name = <<"Adventure", " ", "Run">>

\* C7: an elevation enrichment that fails (rejected fetch, error status,
\* malformed body) resolves to the empty list and never fails the request;
\* with the name resolved too the request finishes, and a finished request
\* stores an empty elevation list and an elevation gain of 0.
C7_ElevationFailureAbsorbed ==
  /\ elevTask.state # "rejected"
  /\ failedAt # "elevation"
  /\ elevTask.reply \in {"throw", "status", "malformed"} =>
       /\ elevTask.state = "resolved"
       /\ elevTask.value = <<>>
       /\ nameTask.state = "resolved" => pc = "done" \/ failedAt = "stats2"
       /\ pc = "done" =>
            /\ genResponse.status = 200
            /\ genResponse.body.stats.elevation_gain_feet = 0
            /\ persisted.elevation = <<>>
            /\ persisted.stats.elevation_gain_feet = 0

\* A request that succeeded although the elevation fetch was rejected.
C7_Witness ==
  /\ pc = "done"
  /\ elevTask.reply = "throw"
  /\ persisted.elevation = <<>>

\* C8: no request fails in a geocoding lookup; a lookup that errors or
\* returns no features gives no candidates, any other gives what
\* geocodeMention returns; and when all lookups have settled the request has
\* gone on and every candidate of every lookup has its key in the merged
\* locations, which hold nothing else.
C8_LookupFailureIsLocal ==
  /\ failedAt # "geocode"
  /\ \A i \in 1..Len(lookups) :
       lookups[i].state = "settled" =>
         IF lookups[i].reply.kind # "ok" THEN lookups[i].candidates = <<>>
         ELSE IF lookups[i].reply.features = <<>>
           THEN lookups[i].candidates = <<>>
         ELSE lookups[i].candidates =
                geocodeMention(lookups[i].mention, Get(request.location),
                               lookups[i].reply).candidates
  /\ (lookups # <<>> /\ \A i \in 1..Len(lookups) : lookups[i].state = "settled")
       =>
       /\ pc = "parse1" \/ failedAt = "config"
       /\ \A i \in 1..Len(lookups) :
            \A k \in 1..Len(lookups[i].candidates) :
              \E l \in 1..Len(locations) :
                locationKey(locations[l]) = locationKey(lookups[i].candidates[k])
       /\ \A l \in 1..Len(locations) :
            \E i \in 1..Len(lookups) :
              \E k \in 1..Len(lookups[i].candidates) :
                locationKey(locations[l]) = locationKey(lookups[i].candidates[k])

\* Two lookups have settled, one with a rejected fetch and one with
\* candidates, and the request waits for the first parseIntent with the
\* other's candidates merged.
C8_Witness ==
  /\ pc = "parse1"
  /\ locations # <<>>
  /\ \E i \in 1..Len(lookups) : lookups[i].reply.kind = "throw"
  /\ \E j \in 1..Len(lookups) : lookups[j].candidates # <<>>

C10_LookupRoundTrip ==
  getResponse.asked =>
    IF <<"route", getResponse.sessionId, getResponse.routeId>> \in written
      THEN /\ getResponse.status = 200
           /\ \E i \in 1..Len(returned) :
                /\ returned[i].sessionId = getResponse.sessionId
                /\ returned[i].routeId = getResponse.routeId
                /\ getResponse.body.geometry = returned[i].geometry
                /\ getResponse.body.stats = returned[i].stats
                /\ getResponse.body.name = returned[i].name
           /\ {"originalQuery", "elevation", "createdAt"}
                \subseteq DOMAIN getResponse.body
      ELSE /\ getResponse.status = 404
           /\ getResponse.body = [error |-> "Route not found"]

\* A lookup with a returned pair that was answered 200.
C10_Witness ==
  /\ getResponse.asked
  /\ getResponse.status = 200
  /\ \E i \in 1..Len(returned) :
       /\ returned[i].sessionId = getResponse.sessionId
       /\ returned[i].routeId = getResponse.routeId

\* The words of a text: its tokens that are not white space.
wordsOf(tokens) == {i \in 1..Len(tokens) : tokens[i] \notin WhiteSpace}

\* C11: determineTier gives INTELLIGENT exactly when the lower-cased query
\* contains a keyword or the query has more than 20 words, otherwise BALANCED
\* exactly when it has a capital letter or more than 10 words, otherwise
\* FAST.
C11_TierByKeywordsAndWordCount ==
  probe.fn = "determineTier" =>
    LET tokens == probe.input.tokens
        wordCount == Cardinality(wordsOf(tokens))
        keyword == \E i \in wordsOf(tokens) :
                     tokens[i] \in {"scenic", "SCENIC", "avoiding", "flat",
                                    "hilly", "challenging", "review",
                                    "waterfront"}
        capital == \E i \in wordsOf(tokens) :
                     tokens[i] \in {"SCENIC", "Green", "Lake", "Pike",
                                    "Place,", "Kerry", "Park"}
    IN probe.output = IF keyword \/ wordCount > 20 THEN "intelligent"
                      ELSE IF capital \/ wordCount > 10 THEN "balanced"
                      ELSE "fast"

\* The provider configurations of a tier in the order they are tried, then
\* the global order Anthropic, OpenAI, Gemini.
configurationsOf(tier) ==
  (CASE tier = "intelligent" ->
          << <<"openai", "gpt-4o">>, <<"anthropic", "claude-3-sonnet-20240229">>,
             <<"gemini", "gemini-1.5-pro">> >>
     [] tier = "balanced" ->
          << <<"openai", "gpt-4o-mini">>,
             <<"anthropic", "claude-haiku-4-5-20251001">> >>
     [] tier = "fast" ->
          << <<"gemini", "gemini-1.5-flash">>,
             <<"anthropic", "claude-haiku-4-5-20251001">> >>)
    \o << <<"anthropic", "default">>, <<"openai", "default">>,
          <<"gemini", "default">> >>

credentialOf(e, kind) ==
  CASE kind = "anthropic" -> e.ANTHROPIC_API_KEY
    [] kind = "openai" -> e.OPENAI_API_KEY
    [] kind = "gemini" -> e.GEMINI_API_KEY

\* C12: getProvider returns the first configuration, in the tier's list
\* followed by the global order, whose credential is set, built from that
\* credential; it throws the configuration error exactly when no credential
\* is set.
C12_FirstConfiguredProvider ==
  probe.fn = "getProvider" =>
    LET e == probe.input.env
        list == configurationsOf(determineTier(probe.input.query))
        set == {i \in 1..Len(list) : credentialOf(e, list[i][1]) # ""}
        none == /\ e.ANTHROPIC_API_KEY = ""
                /\ e.OPENAI_API_KEY = ""
                /\ e.GEMINI_API_KEY = ""
    IN /\ (probe.output = ConfigError) <=> none
       /\ ~none =>
            LET i == CHOOSE i \in set : \A j \in set : i <= j IN
            /\ probe.output.kind = list[i][1]
            /\ probe.output.model = list[i][2]
            /\ probe.output.apiKey = credentialOf(e, list[i][1])
            /\ probe.output.apiKey # ""

\* A BALANCED query with only the Gemini credential set: the tier's list is
\* exhausted and the global order gives Gemini.
C12_Witness ==
  /\ probe.fn = "getProvider"
  /\ determineTier(probe.input.query) = "balanced"
  /\ probe.input.env.OPENAI_API_KEY = ""
  /\ probe.input.env.ANTHROPIC_API_KEY = ""
  /\ probe.output.kind = "gemini"
  /\ probe.output.model = "default"

\* C13: for each backend, a reply that wraps a valid JSON payload in a
\* fenced block parses to the intent the payload alone parses to; a reply
\* whose payload is not JSON raises an error that carries the text; the
\* result is never an intent the reply did not contain.
C13_FencedPayloadParses ==
  probe.fn = "parseIntent" =>
    LET payload == probe.input.payload
        valid == payload \in {"{A}", "{B}"}
        intentOf == IF payload = "{A}" THEN IntentNoTarget ELSE IntentLoop5
    IN IF valid
         THEN ~probe.output.threw /\ probe.output.value = <<intentOf>>
         ELSE /\ probe.output.threw
              /\ probe.output.value = <<>>
              /\ \E i \in 1..Len(probe.output.message) :
                   probe.output.message[i] = payload

\* The maximal runs of tokens that are not white space: the non-empty
\* tokens of a text split at white space.
wordRuns(text) ==
  {i \in 1..Len(text) :
     /\ text[i] \notin WhiteSpace
     /\ (i = 1 \/ text[i - 1] \in WhiteSpace)}

\* C14: whatever text the backend returns, generateName resolves to
\* 'Adventure Run' or to a name of exactly two non-empty tokens with white
\* space between them and none before or after.
C14_TwoTokensOrFallback ==
  probe.fn = "generateName" =>
    /\ ~probe.output.rejected
    /\ \/ probe.output.name = <<"Adventure", " ", "Run">>
       \/ /\ Cardinality(wordRuns(probe.output.name)) = 2
          /\ Head(probe.output.name) \notin WhiteSpace
          /\ probe.output.name[Len(probe.output.name)] \notin WhiteSpace

\* The normalized key of a captured phrase.
normalized(phrase) == toLowerCase(cleanCapturedPhrase(phrase))

\* C15: the mentions extractLocationMentions returns have pairwise
\* different normalized phrases, there is one for every non-empty normalized
\* phrase a rule captured and no other, and the purpose of each is the
\* highest-priority purpose among the captures with its normalized phrase.
C15_OneMentionPerPhrase ==
  probe.fn = "extractLocationMentions" =>
    LET dets == probe.input
        mentions == probe.output
        capturesOf(key) == {i \in 1..Len(dets) : normalized(dets[i].raw) = key}
    IN /\ \A i, j \in 1..Len(mentions) :
            i # j => toLowerCase(mentions[i].phrase)
                       # toLowerCase(mentions[j].phrase)
       /\ \A i \in 1..Len(dets) :
            normalized(dets[i].raw) # "" =>
              \E j \in 1..Len(mentions) :
                toLowerCase(mentions[j].phrase) = normalized(dets[i].raw)
       /\ \A j \in 1..Len(mentions) :
            LET captures == capturesOf(toLowerCase(mentions[j].phrase)) IN
            /\ captures # {}
            /\ \E i \in captures : dets[i].purpose = mentions[j].purpose
            /\ \A i \in captures :
                 purposePriority(dets[i].purpose)
                   <= purposePriority(mentions[j].purpose)

\* The phrase captured by the around rule and again, in another case and
\* with an article, by later rules: one mention, purpose perimeter.
C15_Witness ==
  /\ probe.fn = "extractLocationMentions"
  /\ probe.input = <<Det("Green Lake", "perimeter"),
                     Det(" green lake", "destination"),
                     Det("the Green Lake.", "landmark")>>
  /\ probe.output = <<Mention("Green Lake", "perimeter")>>

\* The candidates of all the mentions, and the key two candidates share
\* when they are one place: the name without case and the coordinates.
candidatesOf(results) ==
  UNION {{results[i][j] : j \in 1..Len(results[i])} : i \in 1..Len(results)}

sameKey(a, b) ==
  /\ toLowerCase(a.name) = toLowerCase(b.name)
  /\ a.coordinates = b.coordinates

\* C16: after the merge in resolveLocations the returned locations hold at
\* most one location per merge key, every candidate's key is present, and
\* the purpose of a location is the highest-priority purpose among the
\* candidates of its key, whatever the order the candidates came in.
C16_OneLocationPerKeyHighestPurpose ==
  probe.fn = "resolveLocations" =>
    LET candidates == candidatesOf(probe.input)
        merged == probe.output
    IN /\ \A i, j \in 1..Len(merged) :
            i # j => ~sameKey(merged[i], merged[j])
       /\ \A c \in candidates :
            \E i \in 1..Len(merged) : sameKey(c, merged[i])
       /\ \A i \in 1..Len(merged) :
            /\ \E c \in candidates :
                 sameKey(c, merged[i]) /\ c.purpose = merged[i].purpose
            /\ \A c \in candidates :
                 sameKey(c, merged[i]) =>
                   purposePriority(c.purpose)
                     <= purposePriority(merged[i].purpose)

\* Three mentions resolve to one place under two spellings: one location,
\* with the purpose of the first, the highest.
C16_Witness ==
  /\ probe.fn = "resolveLocations"
  /\ Len(probe.input) = 3
  /\ \A i \in 1..3 : Len(probe.input[i]) = 1
  /\ probe.input[1][1].purpose = "perimeter"
  /\ probe.input[2][1].purpose = "destination"
  /\ probe.input[3][1].purpose = "landmark"
  /\ probe.input[1][1].name # probe.input[2][1].name
  /\ Len(probe.output) = 1
  /\ probe.output[1].purpose = "perimeter"

milesTo(center) == haversineDistanceMiles(UserPt, Pt(center[2], center[1]))

\* C18: geocodeMention returns every candidate within 25 miles of the user;
\* if none is within 25 miles it returns exactly one candidate, the nearest
\* of those outside the radius, with a note that it is outside the radius.
C18_WithinRadiusOrNearestFallback ==
  (probe.fn = "geocodeMention" /\ Len(probe.input) > 0) =>
    LET features == probe.input
        candidates == probe.output
        inside == {i \in 1..Len(features) :
                     milesTo(features[i].center) <= MILES_RADIUS * 10000000}
    IN IF inside # {}
         THEN /\ Len(candidates) = Cardinality(inside)
              /\ \A i \in inside :
                   \E j \in 1..Len(candidates) :
                     /\ candidates[j].name = features[i].text
                     /\ candidates[j].coordinates
                          = Pt(features[i].center[2], features[i].center[1])
              /\ \A j \in 1..Len(candidates) :
                   \E i \in inside :
                     candidates[j].coordinates
                       = Pt(features[i].center[2], features[i].center[1])
         ELSE /\ Len(candidates) = 1
              /\ \A i \in 1..Len(features) :
                   haversineDistanceMiles(UserPt, candidates[1].coordinates)
                     <= milesTo(features[i].center)
              /\ \E k \in 1..Len(candidates[1].notes) :
                   candidates[1].notes[k] = OutsideNote

\* The estimate of the polyline start, waypoints, end of an intent, in
\* hundredths of a mile.
estimateOf(parsed) ==
  estimateRouteDistance(<<parsed.start>> \o waypointsOf(parsed)
                          \o <<parsed.end>>)

\* C19: when the intent declares distance_miles > 0 and the estimate is
\* below 0.8 times the target, the number of waypoints appended is exactly
\* max(2, ceil(shortage / 0.5)) with shortage = target - estimate, which is
\* at least 2.
C19_AppendedCount ==
  (/\ probe.fn = "validateDistance"
   /\ IsSome(probe.input.distance_miles)
   /\ Get(probe.input.distance_miles) > 0
   /\ 10 * estimateOf(probe.input) < 8 * Get(probe.input.distance_miles)) =>
    LET shortage == Get(probe.input.distance_miles) - estimateOf(probe.input)
        halfMiles == IF shortage % 50 = 0 THEN shortage \div 50
                     ELSE shortage \div 50 + 1
        appended == Len(waypointsOf(probe.output))
                      - Len(waypointsOf(probe.input))
    IN /\ appended = IF halfMiles > 2 THEN halfMiles ELSE 2
       /\ appended >= 2

\* A loop of 5 miles without waypoints gets 10 of them.
C19_Witness ==
  /\ probe.fn = "validateDistance"
  /\ probe.input = Intent(UserPt, UserPt, None, Some(500))
  /\ Len(waypointsOf(probe.output)) = 10

\* C20: the distance validation only adds waypoints: the provider's
\* waypoints are an unchanged prefix of the waypoints after it, start, end
\* and distance are unchanged, and when distance_miles is absent or not
\* positive, or the estimate is at least 0.8 times the target, the
\* waypoints field is exactly what the provider returned.
C20_ValidationOnlyAppends ==
  probe.fn = "validateDistance" =>
    LET parsed == probe.input
        validated == probe.output
        original == waypointsOf(parsed)
        longEnough ==
          \/ ~IsSome(parsed.distance_miles)
          \/ /\ IsSome(parsed.distance_miles)
             /\ \/ Get(parsed.distance_miles) <= 0
                \/ 10 * estimateOf(parsed) >= 8 * Get(parsed.distance_miles)
    IN /\ validated.start = parsed.start
       /\ validated.end = parsed.end
       /\ validated.distance_miles = parsed.distance_miles
       /\ Len(waypointsOf(validated)) >= Len(original)
       /\ SubSeq(waypointsOf(validated), 1, Len(original)) = original
       /\ longEnough => validated.waypoints = parsed.waypoints

\* A way north estimated at 2.76 miles through two waypoints, with a target
\* of 6 miles: the two waypoints stay first and seven follow them.
C20_Witness ==
  /\ probe.fn = "validateDistance"
  /\ probe.input = Intent(UserPt, North(200),
                          Some(<<North(55), North(300)>>), Some(600))
  /\ Len(waypointsOf(probe.output)) = 9
  /\ SubSeq(waypointsOf(probe.output), 1, 2) = <<North(55), North(300)>>

\* C21: on a successful corrective parseIntent the second directions call is
\* issued with the first pass's start and end and with exactly the waypoints
\* the corrective parseIntent returned: the corrective start and end are
\* ignored, the first pass's waypoints are discarded, and the distance
\* validation is not run on the corrected waypoints.
C21_SecondCallKeepsEndsTakesWaypoints ==
  pc = "directions2" =>
    /\ IsSome(newIntent)
    /\ calls.directions = 2
    /\ sent.directions = intent
    /\ Get(sent.directions).start = Get(first).intent.start
    /\ Get(sent.directions).end = Get(first).intent.end
    /\ Get(sent.directions).waypoints = Get(newIntent).waypoints

\* A loop of 5 miles, extended with synthetic waypoints on the first pass,
\* is corrected by an intent that ends elsewhere and has one waypoint: the
\* second call keeps the loop's ends and has that one waypoint, although
\* its estimate is below 0.8 times the target.
C21_Witness ==
  /\ pc = "directions2"
  /\ newIntent = Some(IntentNoTarget)
  /\ Len(waypointsOf(Get(first).intent)) = 10
  /\ sent.directions
       = Some(Intent(UserPt, UserPt, Some(<<North(100)>>), Some(500)))

\* C22: within one request every per-mention geocoding lookup is issued
\* before any of them is awaited, and the first parseIntent call is not
\* issued until every lookup has settled, whether it returned candidates,
\* returned nothing or failed.
C22_LookupsJoinedBeforeParse ==
  LET mentions == extractLocationMentions(request.query)
      pending == {i \in 1..Len(lookups) : lookups[i].state = "pending"}
  IN /\ pc = "geocoding" =>
          /\ Len(lookups) = Len(mentions)
          /\ calls.geocode = Len(mentions)
          /\ pending # {}
     /\ pending # {} => (calls.parse = 0 /\ ~IsSome(sent.parse))
     /\ (pc = "parse1" /\ Truthy(env.MAPBOX_TOKEN)) =>
          /\ Len(lookups) = Len(mentions)
          /\ calls.geocode = Len(mentions)
          /\ pending = {}

\* Two lookups, of which the first failed and the second returned
\* candidates: the first parseIntent is in flight after both.
C22_Witness ==
  /\ pc = "parse1"
  /\ Len(lookups) = 2
  /\ lookups[1].reply = ReplyThrow
  /\ lookups[2].candidates # <<>>
  /\ calls.geocode = 2
  /\ calls.parse = 1

\* C23: elevation enrichment and name generation are both started only
\* after the final directions result and its stats without elevation exist,
\* they are started together, the store put is issued only after both have
\* completed, and name generation receives the stats without elevation
\* (elevation gain 0) of that result.
C23_EnrichmentJoinedBeforePut ==
  /\ pc \in {"geocoding", "parse1", "directions1", "parse2", "directions2"}
       => (calls.elevation = 0 /\ calls.name = 0)
  /\ calls.elevation = calls.name
  /\ calls.put > 0 =>
       (elevTask.state = "resolved" /\ nameTask.state = "resolved")
  /\ pc = "enrich" =>
       /\ calls.elevation = 1
       /\ IsSome(mapboxRoute)
       /\ sent.elevation = Some(Get(mapboxRoute).geometry)
       /\ ~calculateStats(Get(mapboxRoute), <<>>).threw
       /\ Get(sent.name).stats = calculateStats(Get(mapboxRoute), <<>>).stats
       /\ Get(sent.name).stats.elevation_gain_feet = 0

\* C24: for a ring of any length the sample sampleRing produces with the
\* limit MAX_PERIMETER_POINTS = 20 has at most 20 points, and at least one
\* point when the ring is not empty.
C24_SampleAtMostTwentyPoints ==
  probe.fn = "sampleRing" =>
    /\ Len(probe.output) <= MAX_PERIMETER_POINTS
    /\ Len(probe.input) > 0 => Len(probe.output) >= 1

\* The indices at which a point is the {lat, lng} of a position of a ring.
\* The values are compared as texts, since a point may hold anything.
vertexIndices(point, ring) ==
  {k \in 1..Len(ring) : ToString(point) = ToString(Pt(ring[k][2], ring[k][1]))}

\* Every point is a vertex of the ring, and the points follow ring order.
inRingOrder(points, ring) ==
  /\ \A j \in 1..Len(points) : vertexIndices(points[j], ring) # {}
  /\ \A i, j \in 1..Len(points) :
       i < j => \A k \in vertexIndices(points[i], ring) :
                  \A l \in vertexIndices(points[j], ring) : k < l

\* C25: extractPerimeterPoints takes its points from the outer ring of a
\* Polygon, else from the first ring of a MultiPolygon, else from the
\* corners of the bounding box, else returns none; for a Polygon and for a
\* MultiPolygon every returned point is a {lat, lng} vertex of the outer
\* ring of the (first) polygon, in ring order.
C25_PerimeterSourceOrder ==
  probe.fn = "extractPerimeterPoints" =>
    LET feature == probe.input
        points == probe.output.points
        coordinates == feature.geometry.coordinates
    IN IF feature.geometry.type = "Polygon" /\ Len(coordinates) > 0
         THEN /\ IsSome(points)
              /\ inRingOrder(Get(points), coordinates[1])
       ELSE IF feature.geometry.type = "MultiPolygon" /\ Len(coordinates) > 0
         THEN /\ IsSome(points)
              /\ inRingOrder(Get(points), coordinates[1][1])
       ELSE IF IsSome(feature.bbox)
         THEN points = Some(<< Pt(Get(feature.bbox)[4], Get(feature.bbox)[1]),
                               Pt(Get(feature.bbox)[4], Get(feature.bbox)[3]),
                               Pt(Get(feature.bbox)[2], Get(feature.bbox)[3]),
                               Pt(Get(feature.bbox)[2], Get(feature.bbox)[1]) >>)
       ELSE points = None

\* C26: the locations resolveLocations returns depend only on the order of
\* the mentions and on what each lookup returned, never on the order in
\* which the lookups completed: they are the merge, in mention order, of
\* what the replies give, sorted by distance.
C26_LocationsIndependentOfCompletion ==
  (pc = "parse1" /\ Len(lookups) > 0) =>
    locations =
      sortByDistance(
        mergeResults(<<>>,
                     [j \in 1..Len(lookups) |->
                        lookupMention(lookups[j].mention,
                                      Get(request.location),
                                      lookups[j].reply).candidates],
                     1))

\* The second mention's lookup completed first; both returned the same
\* place, which the first mention's candidate represents.
C26_Witness ==
  /\ pc = "parse1"
  /\ Len(lookups) = 2
  /\ lookups[2].order = 1
  /\ lookups[1].order = 2
  /\ lookups[1].candidates # <<>>
  /\ lookups[2].candidates # <<>>
  /\ \E c \in 1..Len(lookups[2].candidates) :
       sameKey(lookups[1].candidates[1], lookups[2].candidates[c])
  /\ \E l \in 1..Len(locations) :
       /\ locations[l].name = lookups[1].candidates[1].name
       /\ locations[l].purpose = lookups[1].mention.purpose

\* C27: in every persisted RouteData the stats and the geometry come from
\* the same directions result, the final one: distance, turns and duration
\* are computed from the result whose geometry is stored, and the elevation
\* gain and the stored elevation list come from the enrichment of that
\* geometry, whether the correction was not tried, applied or given up.
C27_StatsAndGeometryOfOneResult ==
  pc = "done" =>
    /\ \E route \in Routes :
         /\ route = Get(mapboxRoute)
         /\ correction # "applied" => route = Get(first).route
         /\ persisted.geometry = route.geometry
         /\ ~calculateStats(route, persisted.elevation).threw
         /\ persisted.stats = calculateStats(route, persisted.elevation).stats
    /\ sent.elevation = Some(persisted.geometry)
    /\ persisted.elevation = elevTask.value

\* A corrected request: the record has the geometry and the distance of the
\* second directions result, which differ from the first's.
C27_Witness ==
  /\ pc = "done"
  /\ correction = "applied"
  /\ Get(first).route = Route576
  /\ persisted.geometry = Route575.geometry
  /\ persisted.stats.distance_miles = 575
  /\ persisted.elevation # <<>>
  /\ persisted.stats.elevation_gain_feet > 0

\* C28: within one request the provider ModelSelector chose from the
\* original query is the one the first parseIntent, the corrective
\* parseIntent and generateName are called on; the tier is not evaluated
\* again on the feedback query.
C28_OneProviderPerRequest ==
  /\ IsSome(sent.parse) =>
       /\ Get(sent.parse).provider = provider
       /\ Get(sent.parse).provider = getProvider(env, request.query)
  /\ IsSome(sent.name) =>
       /\ Get(sent.name).provider = provider
       /\ Get(sent.name).provider = getProvider(env, request.query)
  /\ pc = "parse1" => Get(sent.parse).query = request.query
  /\ pc = "parse2" => Get(sent.parse).query = feedbackQuery(request.query)

\* The corrective parseIntent of a query of the fast tier is in flight on
\* the provider of that tier, although the feedback query is of the
\* intelligent tier.
C28_Witness ==
  /\ pc = "parse2"
  /\ request.query = QLoop
  /\ determineTier(QLoop) = "fast"
  /\ determineTier(feedbackQuery(QLoop)) = "intelligent"
  /\ Get(sent.parse).query = feedbackQuery(QLoop)
  /\ Get(sent.parse).provider = getProvider(env, QLoop)
  /\ getProvider(env, QLoop) # getProvider(env, feedbackQuery(QLoop))

\* C29: when the intent is a loop (start equals end) every synthetic
\* waypoint has exactly the coordinates of start, for any positive
\* shortage, so the augmentation adds nothing to the estimated length of
\* the polyline.
C29_LoopWaypointsAtStart ==
  (/\ probe.fn = "validateDistance"
   /\ probe.input.start = probe.input.end) =>
    LET original == waypointsOf(probe.input)
        validated == waypointsOf(probe.output)
    IN /\ \A k \in (Len(original) + 1)..Len(validated) :
            validated[k] = probe.input.start
       /\ estimateOf(probe.output) = estimateOf(probe.input)

\* A loop through one waypoint, estimated at 0.76 miles for a target of 5:
\* nine waypoints are added, all at start, and the estimate stays 0.76.
C29_Witness ==
  /\ probe.fn = "validateDistance"
  /\ probe.input = Intent(UserPt, UserPt, Some(<<North(55)>>), Some(500))
  /\ waypointsOf(probe.output) = <<North(55)>> \o [k \in 1..9 |-> UserPt]
  /\ estimateOf(probe.output) = 76

\* A body with a non-empty query and a location in WGS84 degrees (held in
\* units of 10^-4 degree).
wellFormed(body) ==
  /\ Truthy(body.query.text)
  /\ IsSome(body.location)
  /\ Get(body.location).lat \in -900000..900000
  /\ Get(body.location).lng \in -1800000..1800000

\* C30: every generate request with a non-empty query and a location with
\* lat in [-90, 90] and lng in [-180, 180], lat = 0 or lng = 0 included,
\* passes the validation; a request the validation rejects gets a 400
\* response and causes no external call and no store write.
C30_ValidationAcceptsWellFormed ==
  pc = "rejected" =>
    /\ ~wellFormed(request)
    /\ genResponse.status = 400
    /\ calls = NoCalls
    /\ sent = NoSent

====
